---- MODULE Spec2Model ----
(***************************************************************************)
(* Inquiry / contact e-mail pipeline and session cart of the hotel          *)
(* furniture site.                                                          *)
(*                                                                          *)
(*   app/services/inquiry_service.py   InquiryService                       *)
(*   app/utils/mail.py                 send_email                           *)
(*   app/routes/contact.py             send_contact                         *)
(*   app/services/cart_service.py      CartService                          *)
(*                                                                          *)
(* Time is counted in ticks of 1/TicksPerSec second.  A request works on    *)
(* its own copy of the Flask session (loaded from the cookie when the       *)
(* request begins, written back when it ends and session.modified is set).  *)
(***************************************************************************)
EXTENDS Integers, Sequences, FiniteSets, TLC

VARIABLES
    clock,      \* wall clock, in ticks
    cookie,     \* the session as stored in the browser cookie
    db,         \* the Settings and SmtpConfig rows
    rq,         \* per request slot: position, inputs, locals, result
    started,    \* number of submissions begun so far
    ticks,      \* number of Tick steps taken so far
    lastSend,   \* history: the most recent successful SMTP delivery
    cart,       \* session['cart_items']: sequence of cart lines
    cartOp,     \* history: the last CartService call and its result
    cartBefore, \* history: the cart before the last CartService call
    nops        \* number of CartService calls so far

vars == <<clock, cookie, db, rq, started, ticks, lastSend,
          cart, cartOp, cartBefore, nops>>

pipeVars == <<clock, cookie, db, rq, started, ticks, lastSend>>
cartVars == <<cart, cartOp, cartBefore, nops>>

----------------------------------------------------------------------------
(* Bounds of the model *)

TicksPerSec == 2
MaxRequests == 2
MaxTicks == 2
MaxOps == 4
MaxLines == 4

(* Program constants *)

COOLDOWN_SECONDS == 120
MAIL_COOLDOWN_SECONDS == 120
max_retries == 3
initial_delay == 2
DEFAULT_RETRY_COUNT == 3
DEFAULT_RETRY_DELAY == 2
MAX_ATTACHMENT_SIZE == 5242880
MAX_TOTAL_ATTACHMENTS_SIZE == 10485760
MAX_ITEMS == 50
MAX_QTY_PER_ITEM == 999

\* request slots: the requests of one session are handled one at a time
Reqs == {1}

\* the slots of rq: the second one is taken by a request that arrives while
\* another request of the session is being handled
Slots == {1, 2}

----------------------------------------------------------------------------
(* Strings are sequences of one-character strings                          *)

IsSpace(c) == c = " "

RECURSIVE LStrip(_)
LStrip(s) == IF s # <<>> /\ IsSpace(Head(s)) THEN LStrip(Tail(s)) ELSE s

RECURSIVE RStrip(_)
RStrip(s) ==
    IF s # <<>> /\ IsSpace(s[Len(s)]) THEN RStrip(SubSeq(s, 1, Len(s) - 1)) ELSE s

\* str.strip()
Strip(s) == RStrip(LStrip(s))

\* c in s
HasChar(s, c) == \E i \in 1..Len(s) : s[i] = c

\* s.split(c)[-1] : the part after the last occurrence of c (all of s if none)
AfterLast(s, c) ==
    LET idx == {i \in 1..Len(s) : s[i] = c}
    IN  IF idx = {} THEN s
        ELSE LET m == CHOOSE i \in idx : \A j \in idx : j <= i
             IN  SubSeq(s, m + 1, Len(s))

\* dict.get(key) is truthy: the key is present and its value is not empty
Truthy(d, key) == key \in DOMAIN d /\ d[key] # <<>>

\* dict.get(key, '') as a string
GetStr(d, key) == IF key \in DOMAIN d THEN d[key] ELSE <<>>

----------------------------------------------------------------------------
(* Stored cooldown timestamps                                               *)

NoStamp == [k |-> "none"]
Garbage == [k |-> "garbage"]

\* datetime.isoformat() of an instant; aware = carries a UTC offset
Iso(t, aware) == [k |-> "iso", t |-> t, aware |-> aware]

\* datetime.fromisoformat: raises on anything that is not an ISO string
ParseOK(s) == s.k = "iso"

----------------------------------------------------------------------------
(* Messages returned to the caller: the text is identified by kind; mins is *)
(* the number of minutes a wait message shows, text the field name or the   *)
(* exception text a message embeds.                                         *)

Msg(kind, mins, text) == [kind |-> kind, mins |-> mins, text |-> text]
NoMsg == Msg("none", 0, "")

Ret(ok, msg) == [ok |-> ok, msg |-> msg]

----------------------------------------------------------------------------
(* Cooldown guards                                                          *)

\* int(COOLDOWN - elapsed.total_seconds()) for an elapsed time below the window
RemainingSec(window, elapsed) == (window * TicksPerSec - elapsed) \div TicksPerSec

\* (remaining_sec // 60) + 1 if remaining_sec % 60 else remaining_sec // 60
RoundUpMinutes(sec) == IF sec % 60 # 0 THEN (sec \div 60) + 1 ELSE sec \div 60

\* a guard that refuses when the stored timestamp fails to parse
OnParseErrorDeny == [allowed |-> FALSE, mins |-> 2]

\* the except branch of a guard whose stored timestamp failed to parse
OnParseError == [allowed |-> TRUE, mins |-> 0]

\* _check_cooldown comparing with <= : a submission exactly one window after
\* the last send is still refused
CheckCooldownInclusive(stamp, now) ==
    IF stamp.k = "none" THEN [allowed |-> TRUE, mins |-> 0]
    ELSE IF ~ParseOK(stamp) THEN [allowed |-> TRUE, mins |-> 0]
    ELSE IF now - stamp.t <= COOLDOWN_SECONDS * TicksPerSec
         THEN [allowed |-> FALSE, mins |-> 1]
         ELSE [allowed |-> TRUE, mins |-> 0]

\* InquiryService._check_cooldown on the stored 'last_inquiry_time'
CheckCooldown(stamp, now) ==
    IF stamp.k = "none" THEN [allowed |-> TRUE, mins |-> 0]
    ELSE IF ~ParseOK(stamp) THEN OnParseError
    ELSE IF now - stamp.t < COOLDOWN_SECONDS * TicksPerSec
         THEN [allowed |-> FALSE,
               mins |-> RoundUpMinutes(RemainingSec(COOLDOWN_SECONDS, now - stamp.t))]
         ELSE [allowed |-> TRUE, mins |-> 0]

\* the guard at the head of send_email on the stored 'last_email_send_time';
\* now is naive (utcnow), so subtracting an aware timestamp raises TypeError
MailGuard(stamp, now) ==
    IF stamp.k = "none" THEN [allowed |-> TRUE, mins |-> 0]
    ELSE IF ~ParseOK(stamp) \/ stamp.aware THEN OnParseError
    ELSE IF now - stamp.t < MAIL_COOLDOWN_SECONDS * TicksPerSec
         THEN [allowed |-> FALSE,
               mins |-> RoundUpMinutes(RemainingSec(MAIL_COOLDOWN_SECONDS, now - stamp.t))]
         ELSE [allowed |-> TRUE, mins |-> 0]

----------------------------------------------------------------------------
(* Input validation                                                         *)

\* _validate_input requiring the phone whatever the submission shape
RequiredFieldsAlways(is_inquiry) == <<"name", "email", "phone">>

\* the fields _validate_input requires, in the order it checks them
RequiredFields(is_inquiry) ==
    IF is_inquiry THEN <<"name", "email", "phone">> ELSE <<"name", "email">>

FieldMissing(info, f) == ~Truthy(info, f) \/ Strip(info[f]) = <<>>

EmailWellFormed(email) == HasChar(email, "@") /\ HasChar(AfterLast(email, "@"), ".")

\* InquiryService._validate_input
ValidateInput(info, is_inquiry) ==
    LET req == RequiredFields(is_inquiry)
        bad == {i \in 1..Len(req) : FieldMissing(info, req[i])}
    IN  IF bad # {}
        THEN LET i == CHOOSE j \in bad : \A k \in bad : j <= k
             IN  Ret(FALSE, Msg("provide_field", 0, req[i]))
        ELSE IF ~EmailWellFormed(Strip(GetStr(info, "email")))
        THEN Ret(FALSE, Msg("invalid_email", 0, ""))
        ELSE Ret(TRUE, NoMsg)

----------------------------------------------------------------------------
(* Configuration rows                                                       *)

\* all([mail_server, mail_port, mail_username, mail_password])
SmtpComplete(smtp) ==
    smtp.server /\ smtp.port # 0 /\ smtp.username /\ smtp.password

\* InquiryService._get_common_config
GetCommonConfig(d) ==
    IF ~d.settings.exists \/ ~d.settings.email1
    THEN Ret(FALSE, Msg("missing_recipient", 0, ""))
    ELSE IF ~d.smtp.exists \/ ~SmtpComplete(d.smtp)
    THEN Ret(FALSE, Msg("smtp_incomplete", 0, ""))
    ELSE Ret(TRUE, NoMsg)

----------------------------------------------------------------------------
(* Attachment assembly                                                      *)

\* an attachment list that is not empty when assembly starts
NoAttachmentsStale == [att |-> <<1000>>, total |-> 1000, skipped |-> 0, reads |-> 0]

NoAttachments == [att |-> <<>>, total |-> 0, skipped |-> 0, reads |-> 0]

\* the total cap tested against the file alone, not the running total
PrepareOneNoRunningTotal(acc, it) ==
    IF it.img = "none" THEN acc
    ELSE IF it.img = "missing" THEN [acc EXCEPT !.skipped = @ + 1]
    ELSE IF it.size > MAX_ATTACHMENT_SIZE THEN [acc EXCEPT !.skipped = @ + 1]
    ELSE IF it.size > MAX_TOTAL_ATTACHMENTS_SIZE
         THEN [acc EXCEPT !.skipped = @ + 1]
    ELSE IF it.img = "unreadable"
         THEN [acc EXCEPT !.skipped = @ + 1, !.reads = @ + 1]
    ELSE [acc EXCEPT !.att = Append(@, it.size), !.total = @ + it.size,
                     !.reads = @ + 1]

\* one iteration of the loop of _prepare_attachments
PrepareOne(acc, it) ==
    IF it.img = "none" THEN acc
    ELSE IF it.img = "missing" THEN [acc EXCEPT !.skipped = @ + 1]
    ELSE IF it.size > MAX_ATTACHMENT_SIZE THEN [acc EXCEPT !.skipped = @ + 1]
    ELSE IF acc.total + it.size > MAX_TOTAL_ATTACHMENTS_SIZE
         THEN [acc EXCEPT !.skipped = @ + 1]
    ELSE IF it.img = "unreadable"
         THEN [acc EXCEPT !.skipped = @ + 1, !.reads = @ + 1]
    ELSE [acc EXCEPT !.att = Append(@, it.size), !.total = @ + it.size,
                     !.reads = @ + 1]

RECURSIVE PrepareFrom(_, _, _)
PrepareFrom(items, i, acc) ==
    IF i > Len(items) THEN acc
    ELSE PrepareFrom(items, i + 1, PrepareOne(acc, items[i]))

\* InquiryService._prepare_attachments
PrepareAttachments(items) == PrepareFrom(items, 1, NoAttachments)

\* send_email keeps the attachments that have a filename and non-empty data
ProcessAttachments(att) == SelectSeq(att, LAMBDA sz : sz > 0)

----------------------------------------------------------------------------
(* CartService (app/services/cart_service.py)                               *)


\* ids of the rows of the Product table
Products == 1..(MAX_ITEMS + 1)

\* Product.query.get(product_id) finds a row
ProductExists(pid) == pid \in Products

Line(pid, qty) == [id |-> pid, qty |-> qty]

\* any(i['id'] == product_id for i in items)
InCart(items, pid) == \E i \in 1..Len(items) : items[i].id = pid

\* the first line of the product, the one the for loops stop at
FirstIndex(items, pid) ==
    CHOOSE i \in 1..Len(items) :
        items[i].id = pid /\ \A j \in 1..(i - 1) : items[j].id # pid

CartRet(ok, msg, items) == [ok |-> ok, msg |-> msg, cart |-> items]

\* the new-line branch of add_to_cart
AppendLine(items, pid, qty) ==
    CartRet(TRUE, "added", Append(items, Line(pid, qty)))

\* the existing-line branch refusing a quantity that reaches the limit
IncreaseLineStrict(items, pid, qty) ==
    LET i == FirstIndex(items, pid)
        new_qty == items[i].qty + qty
    IN  IF new_qty >= MAX_QTY_PER_ITEM
        THEN CartRet(FALSE, "qty_limit", items)
        ELSE CartRet(TRUE, "added", [items EXCEPT ![i].qty = new_qty])

\* the existing-line branch of add_to_cart
IncreaseLine(items, pid, qty) ==
    LET i == FirstIndex(items, pid)
        new_qty == items[i].qty + qty
    IN  IF new_qty > MAX_QTY_PER_ITEM
        THEN CartRet(FALSE, "qty_limit", items)
        ELSE CartRet(TRUE, "added", [items EXCEPT ![i].qty = new_qty])

\* the cart-full test letting one line too many in
CartFullLate(items, pid) == Len(items) > MAX_ITEMS /\ ~InCart(items, pid)

\* the cart-full test of add_to_cart
CartFull(items, pid) == Len(items) >= MAX_ITEMS /\ ~InCart(items, pid)

\* add_to_cart that appends a line whether or not the product has one
AddToCartAlwaysAppend(items, pid, qty) ==
    IF qty < 1 THEN CartRet(FALSE, "qty_positive", items)
    ELSE IF ~ProductExists(pid) THEN CartRet(FALSE, "no_product", items)
    ELSE IF CartFull(items, pid) THEN CartRet(FALSE, "cart_full", items)
    ELSE AppendLine(items, pid, qty)

\* CartService.add_to_cart
AddToCart(items, pid, qty) ==
    IF qty < 1 THEN CartRet(FALSE, "qty_positive", items)
    ELSE IF ~ProductExists(pid) THEN CartRet(FALSE, "no_product", items)
    ELSE IF CartFull(items, pid) THEN CartRet(FALSE, "cart_full", items)
    ELSE IF InCart(items, pid) THEN IncreaseLine(items, pid, qty)
    ELSE AppendLine(items, pid, qty)

\* remove_from_cart that drops the last line when the product is not found
RemoveFromCartOrLast(items, pid) ==
    LET kept == SelectSeq(items, LAMBDA l : l.id # pid)
    IN  IF Len(kept) = Len(items)
        THEN CartRet(FALSE, "not_in_cart",
                     IF items = <<>> THEN items ELSE SubSeq(items, 1, Len(items) - 1))
        ELSE CartRet(TRUE, "removed", kept)

\* CartService.remove_from_cart
RemoveFromCart(items, pid) ==
    LET kept == SelectSeq(items, LAMBDA l : l.id # pid)
    IN  IF Len(kept) = Len(items)
        THEN CartRet(FALSE, "not_in_cart", items)
        ELSE CartRet(TRUE, "removed", kept)

\* update_quantity removing only for a negative quantity
UpdateQuantityNegative(items, pid, qty) ==
    IF qty < 0 THEN RemoveFromCart(items, pid)
    ELSE IF ~InCart(items, pid) THEN CartRet(FALSE, "not_in_cart", items)
    ELSE IF qty > MAX_QTY_PER_ITEM THEN CartRet(FALSE, "qty_limit", items)
    ELSE CartRet(TRUE, "updated",
                 [items EXCEPT ![FirstIndex(items, pid)].qty = qty])

\* CartService.update_quantity
UpdateQuantity(items, pid, qty) ==
    IF qty < 1 THEN RemoveFromCart(items, pid)
    ELSE IF ~InCart(items, pid) THEN CartRet(FALSE, "not_in_cart", items)
    ELSE IF qty > MAX_QTY_PER_ITEM THEN CartRet(FALSE, "qty_limit", items)
    ELSE CartRet(TRUE, "updated",
                 [items EXCEPT ![FirstIndex(items, pid)].qty = qty])

\* CartService.clear_cart
ClearCart(items) == CartRet(TRUE, "cleared", <<>>)

RECURSIVE SumQty(_)
SumQty(items) == IF items = <<>> THEN 0 ELSE Head(items).qty + SumQty(Tail(items))

\* a summary that counts the lines as the items
GetCartSummaryCountsLines(items) ==
    [total_items |-> Len(items), unique_items |-> Len(items),
     is_empty |-> Len(items) = 0]

\* CartService.get_cart_summary
GetCartSummary(items) ==
    [total_items |-> SumQty(items), unique_items |-> Len(items),
     is_empty |-> Len(items) = 0]

\* the cart after add_to_cart(1, 1), ..., add_to_cart(n, 1)
FilledCart(n) == [i \in 1..n |-> Line(i, 1)]

----------------------------------------------------------------------------
(* Inputs                                                                   *)

Name == <<"a">>
GoodEmail == <<"a", "@", "b", ".", "c">>
BadEmail == <<"a", "@", "b">>
Phone == <<"1">>
Text == <<"a">>

\* customer_info dictionaries handed to InquiryService.send_inquiry
InfoCases ==
    { [name |-> Name, email |-> GoodEmail, phone |-> Phone],
      [name |-> Name, email |-> GoodEmail],
      [name |-> Name, email |-> GoodEmail, phone |-> <<>>],
      [name |-> Name, email |-> GoodEmail, phone |-> <<" ">>],
      [name |-> Name, email |-> BadEmail, phone |-> Phone],
      [name |-> <<" ">>, email |-> GoodEmail, phone |-> Phone] }

\* form / JSON bodies posted to /contact/send
DataCases ==
    { [name |-> Name, email |-> GoodEmail, message |-> Text],
      [name |-> Name, email |-> GoodEmail, message |-> <<" ">>],
      [name |-> Name, email |-> BadEmail, message |-> Text, phone |-> Phone] }

File(size) == [img |-> "file", size |-> size]

OneItem == <<File(1000)>>

\* lines whose image is missing, too large and unreadable, then one that fits
MixedItems ==
    << [img |-> "missing", size |-> 0], File(MAX_ATTACHMENT_SIZE + 1),
       [img |-> "unreadable", size |-> 1000], File(1000) >>

\* item lists handed to InquiryService.send_inquiry
ItemCases == {<<>>, OneItem, MixedItems}

\* the image file of a product row
ProductImage(pid) == File(1000 + pid)

\* Product.product_code of a product row
ProductCode(pid) == IF pid = 1 THEN "HF-001" ELSE "HF-002"

\* the lines of CartService.get_cart() as send_inquiry reads them: the
\* 'image' of the line and its file, next to the keys add_to_cart stored
CartItems(items) ==
    [i \in 1..Len(items) |->
        [img |-> ProductImage(items[i].id).img, size |-> ProductImage(items[i].id).size,
         id |-> items[i].id, code |-> ProductCode(items[i].id),
         qty |-> items[i].qty]]

\* an item as the front end posts it: {product_code, quantity, image}
PayloadItems ==
    << [img |-> "file", size |-> 1000, product_code |-> "HF-001", quantity |-> 3] >>

ValidInfo == [name |-> Name, email |-> GoodEmail, phone |-> Phone]

\* calls of InquiryService.send_inquiry(items, customer_info)
InquiryCases ==
    { [items |-> it, info |-> ValidInfo] : it \in ItemCases }
    \cup { [items |-> it, info |-> [name |-> Name, email |-> GoodEmail]] :
               it \in {<<>>, OneItem} }
    \cup { [items |-> OneItem, info |-> i] :
               i \in InfoCases \ {ValidInfo} }
    \cup { [items |-> <<>>, info |-> [name |-> Name, email |-> BadEmail, phone |-> Phone]] }

\* text of the exception a failed SMTP attempt raises
ExcTexts == {"Connection refused", "Server not connected"}

SettingsRow(email1) == [exists |-> TRUE, email1 |-> email1]
NoSettings == [exists |-> FALSE, email1 |-> FALSE]

\* a SmtpConfig row with the column defaults: port 587, STARTTLS, no SSL
SmtpRow(username, password, active) ==
    [exists |-> TRUE, server |-> TRUE, port |-> 587, username |-> username,
     password |-> password, active |-> active,
     use_tls |-> TRUE, use_ssl |-> FALSE]
NoSmtp ==
    [exists |-> FALSE, server |-> FALSE, port |-> 0, username |-> FALSE,
     password |-> FALSE, active |-> FALSE,
     use_tls |-> FALSE, use_ssl |-> FALSE]

\* a JSON value under the key 'items': a list of lines, or a string of
\* some length
JsonList(v) == [type |-> "list", v |-> v, len |-> Len(v)]
JsonString(n) == [type |-> "string", v |-> <<>>, len |-> n]

\* isinstance(items, list)
IsList(j) == j.type = "list"

\* the truth value of a list or a string: it is not empty
JsonTruthy(j) == j.len > 0

\* JSON bodies posted to /cart/send-inquiry
RouteCases ==
    { [items |-> JsonList(OneItem), customer_info |-> ValidInfo],
      [items |-> JsonList(<<>>), customer_info |-> ValidInfo],
      [items |-> JsonString(1), customer_info |-> ValidInfo],
      [items |-> JsonString(0), customer_info |-> ValidInfo],
      [items |-> JsonList(OneItem), customer_info |-> [name |-> Name, email |-> <<>>]],
      [items |-> JsonList(OneItem), customer_info |-> [name |-> Name, email |-> BadEmail]] }

\* contents of the Settings and SmtpConfig tables
DbCases ==
    { [settings |-> SettingsRow(TRUE), smtp |-> SmtpRow(TRUE, TRUE, TRUE)],
      [settings |-> SettingsRow(FALSE), smtp |-> SmtpRow(TRUE, TRUE, TRUE)],
      [settings |-> NoSettings, smtp |-> SmtpRow(TRUE, TRUE, TRUE)],
      [settings |-> SettingsRow(TRUE), smtp |-> NoSmtp],
      [settings |-> SettingsRow(TRUE), smtp |-> SmtpRow(TRUE, FALSE, TRUE)],
      [settings |-> SettingsRow(TRUE), smtp |-> SmtpRow(TRUE, TRUE, FALSE)] }

\* time steps: a tick, one second short of the window, the whole window
Deltas ==
    { 1, (COOLDOWN_SECONDS - 1) * TicksPerSec, COOLDOWN_SECONDS * TicksPerSec }

----------------------------------------------------------------------------
(* Requests                                                                 *)

NoSend == [path |-> "none", t |-> 0, by |-> 0]

EmptySession == [inq |-> NoStamp, email |-> NoStamp]

IdleReq ==
    [ pc        |-> "idle",
      path      |-> "none",
      items     |-> <<>>,
      info      |-> [name |-> <<>>],
      sess      |-> EmptySession,     \* the request's session object
      sess0     |-> EmptySession,     \* history: the session when it began
      modified  |-> FALSE,            \* session.modified
      prev      |-> NoSend,           \* history: last delivery before it began
      chk       |-> "none",           \* history: answer of _check_cooldown
      chkAt     |-> 0,                \* history: time of _check_cooldown
      assembled |-> FALSE,            \* history: _prepare_attachments was called
      reads     |-> 0,                \* history: image files opened
      att       |-> <<>>,             \* attachments handed to send_email
      mailCalls |-> 0,                \* history: calls of send_email
      now       |-> 0,                \* send_email: now
      nmsg      |-> 0,                \* send_email: attachments in the message
      attempt   |-> 0,                \* send_email: loop variable
      conns     |-> 0,                \* history: SMTP connections opened
      fails     |-> 0,                \* history: attempts that raised
      okAt      |-> 0,                \* history: the attempt that delivered
      sleeps    |-> 0,                \* history: time.sleep calls
      serFail   |-> FALSE,            \* history: msg.as_bytes raised
      skipped   |-> 0,                \* history: len(skipped) of _prepare_attachments
      idx       |-> 0,                \* _prepare_attachments: lines looped over
      acc       |-> NoAttachments,    \* _prepare_attachments: its locals
      accBefore |-> NoAttachments,    \* history: the locals before the last line
      use_ssl   |-> FALSE,            \* send_email: use_ssl after line 74
      use_tls   |-> FALSE,            \* send_email: use_tls after line 75
      connClass |-> "none",           \* history: class of the last connection
      starttls  |-> FALSE,            \* history: the last attempt issues STARTTLS
      viaRoute  |-> FALSE,            \* send_inquiry was called by /cart/send-inquiry
      fromSession |-> FALSE,          \* the route's use_session_cart is truthy
      rows      |-> <<>>,             \* history: the rows of the product table
      authenticated |-> FALSE,        \* history: current_user.is_authenticated
      payload   |-> [type |-> "list", v |-> <<>>, len |-> 0], \* history: data.get('items', [])
      mailret   |-> Ret(FALSE, NoMsg),\* what send_email returned
      out       |-> Ret(FALSE, NoMsg),\* what the handler returned
      status    |-> 0 ]               \* HTTP status of the route's response

InFlight(r) == rq[r].pc \notin {"idle", "done"}

\* 'cooldown' in message.lower() or 'wait' in message.lower(): of the texts
\* send_inquiry returns, only the 'Please wait approximately ...' one
MentionsWait(msg) == msg.kind = "please_wait"

\* the response /cart/send-inquiry builds from what send_inquiry returned
RouteStatus(out) ==
    IF out.ok THEN 200 ELSE IF MentionsWait(out.msg) THEN 429 ELSE 400

\* a session write that is dropped when the cookie changed since the request
\* loaded it
FinishFirstWriteWins(r, rec, out, status) ==
    /\ rq' = [rq EXCEPT ![r] =
                 [rec EXCEPT !.pc = "done", !.out = out,
                             !.status = IF rec.viaRoute THEN RouteStatus(out)
                                                        ELSE status]]
    /\ cookie' = IF rec.modified /\ cookie = rec.sess0 THEN rec.sess ELSE cookie

\* the handler returns: Flask writes the session back if it was modified;
\* a send_inquiry called by the route returns to it, and the route responds
Finish(r, rec, out, status) ==
    /\ rq' = [rq EXCEPT ![r] =
                 [rec EXCEPT !.pc = "done", !.out = out,
                             !.status = IF rec.viaRoute THEN RouteStatus(out)
                                                        ELSE status]]
    /\ cookie' = IF rec.modified THEN rec.sess ELSE cookie

Step(r, rec) ==
    /\ rq' = [rq EXCEPT ![r] = rec]
    /\ cookie' = cookie

\* a new request of the session arrives and loads the session cookie
NewReq(path, items, info) ==
    [IdleReq EXCEPT !.pc = IF path = "inquiry" THEN "check_cooldown"
                                               ELSE "contact_validate",
                    !.path = path, !.items = items, !.info = info,
                    !.sess = cookie, !.sess0 = cookie, !.prev = lastSend]

\* a call of InquiryService.send_inquiry(items, customer_info)
BeginInquiry(r, items, info) ==
    /\ \A q \in Reqs : ~InFlight(q)
    /\ started < MaxRequests
    /\ started' = started + 1
    /\ rq' = [rq EXCEPT ![r] = NewReq("inquiry", items, info)]
    /\ UNCHANGED <<clock, cookie, db, ticks, lastSend>>

\* a call of InquiryService.send_inquiry with the lines of the session cart
\* as items, as the route's use_session_cart branch makes it
BeginInquiryFromCart(r, info) ==
    /\ \A q \in Reqs : ~InFlight(q)
    /\ cart # <<>>
    /\ started < MaxRequests
    /\ started' = started + 1
    /\ rq' = [rq EXCEPT ![r] = [NewReq("inquiry", CartItems(cart), info)
                                   EXCEPT !.fromSession = TRUE]]
    /\ UNCHANGED <<clock, cookie, db, ticks, lastSend>>

\* send_inquiry, step 1: cooldown check
InqCheckCooldown(r) ==
    /\ rq[r].pc = "check_cooldown"
    /\ LET c == CheckCooldown(rq[r].sess.inq, clock)
           rec == [rq[r] EXCEPT !.chk = IF c.allowed THEN "allowed" ELSE "denied",
                                !.chkAt = clock]
       IN  IF c.allowed
           THEN Step(r, [rec EXCEPT !.pc = "validate"])
           ELSE Finish(r, rec, Ret(FALSE, Msg("please_wait", c.mins, "")), 0)
    /\ UNCHANGED <<clock, db, started, ticks, lastSend>>

\* send_inquiry, step 1: field validation
InqValidate(r) ==
    /\ rq[r].pc = "validate"
    /\ LET v == ValidateInput(rq[r].info, Len(rq[r].items) > 0)
       IN  IF v.ok
           THEN Step(r, [rq[r] EXCEPT !.pc = "get_config"])
           ELSE Finish(r, rq[r], v, 0)
    /\ UNCHANGED <<clock, db, started, ticks, lastSend>>

\* send_inquiry, step 1: configuration
InqGetConfig(r) ==
    /\ rq[r].pc = "get_config"
    /\ LET c == GetCommonConfig(db)
       IN  IF c.ok
           THEN Step(r, [rq[r] EXCEPT !.pc = "prepare"])
           ELSE Finish(r, rq[r], c, 0)
    /\ UNCHANGED <<clock, db, started, ticks, lastSend>>

\* item.get(key, default)
DictGet(item, key, default) == IF key \in DOMAIN item THEN item[key] ELSE default

\* _build_inquiry_body_html: the Code and Quantity cells of an item's row
TableRow(item) ==
    [code |-> DictGet(item, "product_code", "N/A"),
     qty |-> DictGet(item, "quantity", 1)]

\* _build_inquiry_body_html: the rows of the product table, none for a
\* contact-only message
BuildTable(items) == [i \in 1..Len(items) |-> TableRow(items[i])]

\* a submission given up as soon as one image had to be skipped
InqPrepareAbortOnSkip(r) ==
    /\ rq[r].pc = "prepare"
    /\ LET a == PrepareAttachments(rq[r].items)
           rec == [rq[r] EXCEPT !.assembled = TRUE, !.reads = a.reads,
                                !.att = a.att, !.skipped = a.skipped]
       IN  IF a.skipped > 0
           THEN Finish(r, rec, Ret(FALSE, Msg("failed_generic", 0, "")), 0)
           ELSE Step(r, [rec EXCEPT !.pc = "mail_guard"])
    /\ UNCHANGED <<clock, db, started, ticks, lastSend>>

\* send_inquiry, step 2: attachments, subject and body, then the call of
\* send_email
InqPrepare(r) ==
    /\ rq[r].pc = "prepare"
    /\ LET a == PrepareAttachments(rq[r].items)
       IN  Step(r, [rq[r] EXCEPT !.pc = "mail_guard", !.assembled = TRUE,
                                 !.reads = a.reads, !.att = a.att,
                                 !.skipped = a.skipped,
                                 !.rows = BuildTable(rq[r].items)])
    /\ UNCHANGED <<clock, db, started, ticks, lastSend>>

----------------------------------------------------------------------------
(* send_email (app/utils/mail.py)                                           *)

\* the recipient each caller passes as to_addr is present
ToAddrPresent(path, d) ==
    IF path = "inquiry" THEN d.settings.email1
    ELSE d.settings.email1 \/ d.smtp.username

\* all([smtp_server, smtp_port, username, password, from_addr, to_addr])
MailConfigOK(path, d) == SmtpComplete(d.smtp) /\ ToAddrPresent(path, d)

\* port 465 left to the use_ssl flag alone
UseSslFlagOnly(port, use_ssl) == use_ssl

\* use_ssl = use_ssl or (smtp_port == 465)
UseSsl(port, use_ssl) == use_ssl \/ port = 465

\* use_tls = use_tls and not use_ssl
UseTls(use_tls, ssl) == use_tls /\ ~ssl

\* the class an attempt connects with
ConnClass(ssl) == IF ssl THEN "SMTP_SSL" ELSE "SMTP"

\* server.starttls() is in the attempt's path: the plain-SMTP branch, use_tls set
IssuesStartTls(ssl, tls) == ~ssl /\ tls

\* giving up one attempt early
LastAttemptEarly(a) == a = max_retries - 1

\* a loop whose failed passes always go on to the sleep
LastAttemptNever(a) == FALSE

\* if attempt == max_retries: return
LastAttempt(a) == a = max_retries

\* range(1, max_retries + 1) has a next value after attempt a
HasNextAttempt(a) == a < max_retries

\* initial_delay * (2 ** (attempt - 1)), in ticks
Backoff(a) == initial_delay * (2 ^ (a - 1)) * TicksPerSec

\* send_email, cooldown guard at its head
MailGuardStep(r) ==
    /\ rq[r].pc = "mail_guard"
    /\ LET g == MailGuard(rq[r].sess.email, clock)
           rec == [rq[r] EXCEPT !.mailCalls = @ + 1, !.now = clock]
       IN  IF g.allowed
           THEN Step(r, [rec EXCEPT !.pc = "mail_prepare"])
           ELSE Step(r, [rec EXCEPT !.pc = "after_send",
                                    !.mailret = Ret(FALSE, Msg("mail_wait", g.mins, ""))])
    /\ UNCHANGED <<clock, db, started, ticks, lastSend>>

\* send_email, configuration check, MIME message and its serialization
MailPrepare(r, serOK, exc) ==
    /\ rq[r].pc = "mail_prepare"
    /\ IF ~MailConfigOK(rq[r].path, db)
       THEN Step(r, [rq[r] EXCEPT !.pc = "after_send",
                        !.mailret = Ret(FALSE, Msg("mail_config", 0, ""))])
       ELSE LET ssl == UseSsl(db.smtp.port, db.smtp.use_ssl)
                rec == [rq[r] EXCEPT !.nmsg = Len(ProcessAttachments(rq[r].att)),
                                     !.use_ssl = ssl,
                                     !.use_tls = UseTls(db.smtp.use_tls, ssl)]
            IN  IF serOK
                THEN Step(r, [rec EXCEPT !.pc = "mail_attempt", !.attempt = 1])
                ELSE Step(r, [rec EXCEPT !.pc = "after_send", !.serFail = TRUE,
                                 !.mailret = Ret(FALSE, Msg("serialize_failed", 0, exc))])
    /\ UNCHANGED <<clock, db, started, ticks, lastSend>>

\* LAST_SEND_KEY set on every pass, delivered or not
SessAfterAttemptAlways(sess, delivered, now) == [sess EXCEPT !.email = Iso(now, FALSE)]

\* the session after one pass of the loop: LAST_SEND_KEY is set after quit()
SessAfterAttempt(sess, delivered, now) ==
    IF delivered THEN [sess EXCEPT !.email = Iso(now, FALSE)] ELSE sess

\* send_email, one pass of the retry loop: connect, login, sendmail, quit
MailAttempt(r, delivered, exc) ==
    /\ rq[r].pc = "mail_attempt"
    /\ LET a == rq[r].attempt
           after == SessAfterAttempt(rq[r].sess, delivered, rq[r].now)
           rec == [rq[r] EXCEPT !.conns = @ + 1, !.sess = after,
                                !.modified = @ \/ after # rq[r].sess,
                                !.connClass = ConnClass(rq[r].use_ssl),
                                !.starttls = IssuesStartTls(rq[r].use_ssl,
                                                            rq[r].use_tls)]
       IN  IF delivered
           THEN Step(r, [rec EXCEPT !.pc = "after_send", !.okAt = a,
                            !.modified = TRUE,
                            !.mailret = Ret(TRUE, Msg("mail_sent", 0, ""))])
           ELSE IF LastAttempt(a)
           THEN Step(r, [rec EXCEPT !.pc = "after_send", !.fails = @ + 1,
                            !.mailret = Ret(FALSE, Msg("retries_failed", 0, exc))])
           ELSE Step(r, [rec EXCEPT !.pc = "mail_sleep", !.fails = @ + 1])
    /\ UNCHANGED <<clock, db, started, ticks, lastSend>>

\* send_email, time.sleep between two attempts
MailSleep(r) ==
    /\ rq[r].pc = "mail_sleep"
    /\ clock' = clock + Backoff(rq[r].attempt)
    /\ IF HasNextAttempt(rq[r].attempt)
       THEN Step(r, [rq[r] EXCEPT !.pc = "mail_attempt", !.attempt = @ + 1,
                                  !.sleeps = @ + 1])
       ELSE Step(r, [rq[r] EXCEPT !.pc = "after_send", !.sleeps = @ + 1,
                        !.mailret = Ret(FALSE, Msg("all_retries_failed", 0, ""))])
    /\ UNCHANGED <<db, started, ticks, lastSend>>

----------------------------------------------------------------------------
(* InquiryService.send_inquiry, step 3                                      *)

\* _update_cooldown
UpdateCooldown(sess, now) == [sess EXCEPT !.inq = Iso(now, TRUE)]

\* what send_inquiry returns for the result of send_email
InquiryResult(mailret) ==
    IF mailret.ok THEN Ret(TRUE, Msg("sent", 0, ""))
    ELSE Ret(FALSE, Msg("failed_generic", 0, ""))

InqAfterSend(r) ==
    /\ rq[r].pc = "after_send"
    /\ rq[r].path = "inquiry"
    /\ IF rq[r].mailret.ok
       THEN /\ Finish(r, [rq[r] EXCEPT !.sess = UpdateCooldown(@, clock),
                                       !.modified = TRUE],
                      InquiryResult(rq[r].mailret), 0)
            /\ lastSend' = [path |-> "inquiry", t |-> clock, by |-> r]
       ELSE /\ Finish(r, rq[r], InquiryResult(rq[r].mailret), 0)
            /\ lastSend' = lastSend
    /\ UNCHANGED <<clock, db, started, ticks>>

----------------------------------------------------------------------------
(* POST /contact/send (app/routes/contact.py)                               *)

\* customer_info as send_contact builds it from the posted data
ContactInfo(data) ==
    [ name    |-> Strip(GetStr(data, "name")),
      email   |-> Strip(GetStr(data, "email")),
      phone   |-> IF Strip(GetStr(data, "phone")) # <<>>
                  THEN Strip(GetStr(data, "phone"))
                  ELSE Strip(GetStr(data, "whatsapp")),
      message |-> Strip(GetStr(data, "message")) ]

\* 'Server' in str(message)
ContainsServer(msg) ==
    msg.kind \in {"retries_failed", "serialize_failed"}
    /\ msg.text = "Server not connected"

BeginContact(r, data) ==
    /\ \A q \in Reqs : ~InFlight(q)
    /\ started < MaxRequests
    /\ started' = started + 1
    /\ rq' = [rq EXCEPT ![r] = NewReq("contact", <<>>, ContactInfo(data))]
    /\ UNCHANGED <<clock, cookie, db, ticks, lastSend>>

\* required fields
ContactValidate(r) ==
    /\ rq[r].pc = "contact_validate"
    /\ LET i == rq[r].info
       IN  IF i.name = <<>> \/ i.email = <<>> \/ i.message = <<>>
           THEN Finish(r, rq[r], Ret(FALSE, Msg("contact_required", 0, "")), 400)
           ELSE Step(r, [rq[r] EXCEPT !.pc = "contact_config"])
    /\ UNCHANGED <<clock, db, started, ticks, lastSend>>

\* SMTP row and recipient, then subject and body, then the call of send_email
ContactConfig(r) ==
    /\ rq[r].pc = "contact_config"
    /\ IF ~db.smtp.exists \/ ~db.smtp.active
       THEN Finish(r, rq[r], Ret(FALSE, Msg("mail_not_configured", 0, "")), 500)
       ELSE IF ~ToAddrPresent("contact", db)
       THEN Finish(r, rq[r], Ret(FALSE, Msg("no_recipient", 0, "")), 500)
       ELSE Step(r, [rq[r] EXCEPT !.pc = "mail_guard"])
    /\ UNCHANGED <<clock, db, started, ticks, lastSend>>

\* the response of send_contact for the result of send_email
ContactResponse(mailret) ==
    IF mailret.ok
    THEN [out |-> Ret(TRUE, Msg("contact_sent", 0, "")), status |-> 200]
    ELSE [out |-> Ret(FALSE, mailret.msg),
          status |-> IF ContainsServer(mailret.msg) THEN 500 ELSE 429]

ContactAfterSend(r) ==
    /\ rq[r].pc = "after_send"
    /\ rq[r].path = "contact"
    /\ LET resp == ContactResponse(rq[r].mailret)
       IN  Finish(r, rq[r], resp.out, resp.status)
    /\ lastSend' = IF rq[r].mailret.ok
                   THEN [path |-> "contact", t |-> clock, by |-> r]
                                       ELSE lastSend
    /\ UNCHANGED <<clock, db, started, ticks>>

----------------------------------------------------------------------------
(* POST /cart/send-inquiry (app/routes/cart.py)                             *)

\* the parameters of InquiryService.send_inquiry
SendInquiryParams == {"items", "customer_info"}

\* the keyword arguments of the route's call
RouteCallKeywords == {"items", "customer_info", "from_session"}

\* a call with keyword arguments binds when each names a parameter;
\* otherwise Python raises TypeError
CallBinds(keywords, params) == keywords \subseteq params

\* ", ".join(missing) for missing = [f for f in ['name', 'email'] if not info.get(f)]
JoinMissing(info) ==
    IF ~Truthy(info, "name") /\ ~Truthy(info, "email") THEN "name, email"
    ELSE IF ~Truthy(info, "name") THEN "name"
    ELSE IF ~Truthy(info, "email") THEN "email"
    ELSE ""

\* customer_info.setdefault('phone', '')
SetDefaultPhone(info) ==
    IF "phone" \in DOMAIN info THEN info ELSE info @@ [phone |-> <<>>]

\* current_user.is_authenticated and CartService.get_cart()
UseSessionCart(authenticated, lines) == authenticated /\ lines # <<>>

\* the items taken from the payload whenever it has any
RouteItemsPayloadFirst(authenticated, lines, data) ==
    IF JsonTruthy(data.items) THEN data.items ELSE JsonList(CartItems(lines))

\* the items the route uses: the lines of the session cart, or the payload's
RouteItems(authenticated, lines, data) ==
    IF UseSessionCart(authenticated, lines)
    THEN JsonList(CartItems(lines))
    ELSE data.items

\* the route up to its call of the service: the items to use, their shape,
\* the required fields of customer_info
BeginCartRoute(r, authenticated, data) ==
    /\ \A q \in Reqs : ~InFlight(q)
    /\ started < MaxRequests
    /\ started' = started + 1
    /\ LET use_session_cart == UseSessionCart(authenticated, cart)
           items == RouteItems(authenticated, cart, data)
           info == data.customer_info
           rec == [IdleReq EXCEPT !.path = "cart_route",
                                  !.items = IF IsList(items) THEN items.v ELSE <<>>,
                                  !.info = SetDefaultPhone(info),
                                  !.sess = cookie, !.sess0 = cookie,
                                  !.prev = lastSend,
                                  !.fromSession = use_session_cart,
                                  !.authenticated = authenticated,
                                  !.payload = data.items]
       IN  IF ~use_session_cart /\ ~JsonTruthy(items)
           THEN Finish(r, [rec EXCEPT !.info = info],
                       Ret(FALSE, Msg("no_products", 0, "")), 400)
           ELSE IF ~IsList(items) \/ Len(items.v) = 0
           THEN Finish(r, [rec EXCEPT !.info = info],
                       Ret(FALSE, Msg("list_empty", 0, "")), 400)
           ELSE IF JoinMissing(info) # ""
           THEN Finish(r, [rec EXCEPT !.info = info],
                       Ret(FALSE, Msg("fill_required", 0, JoinMissing(info))), 400)
           ELSE Step(r, [rec EXCEPT !.pc = "route_call"])
    /\ UNCHANGED <<clock, db, ticks, lastSend>>

\* the route's call InquiryService.send_inquiry(items=, customer_info=,
\* from_session=): a call that binds runs the service for the route; the
\* TypeError of one that does not is caught by the route's except Exception
RouteCall(r) ==
    /\ rq[r].pc = "route_call"
    /\ IF CallBinds(RouteCallKeywords, SendInquiryParams)
       THEN Step(r, [rq[r] EXCEPT !.pc = "check_cooldown", !.path = "inquiry",
                                  !.viaRoute = TRUE])
       ELSE Finish(r, rq[r], Ret(FALSE, Msg("system_busy", 0, "")), 500)
    /\ UNCHANGED <<clock, db, started, ticks, lastSend>>

----------------------------------------------------------------------------
(* MailService._send_with_retry (app/services/mail_service.py)              *)

\* DEFAULT_RETRY_DELAY * (attempt ** 1.5), rounded up to whole ticks
RetryDelay(a) ==
    LET sq == DEFAULT_RETRY_DELAY * DEFAULT_RETRY_DELAY * TicksPerSec * TicksPerSec
                  * a * a * a
    IN  CHOOSE n \in 0..sq : n * n >= sq /\ (n = 0 \/ (n - 1) * (n - 1) < sq)

\* a call of MailService._send_with_retry(msg)
BeginRetrySend(r) ==
    /\ \A q \in Reqs : ~InFlight(q)
    /\ started < MaxRequests
    /\ started' = started + 1
    /\ rq' = [rq EXCEPT ![r] = [IdleReq EXCEPT !.pc = "retry_attempt",
                                   !.path = "retry_send", !.attempt = 1,
                                   !.sess = cookie, !.sess0 = cookie,
                                   !.prev = lastSend]]
    /\ UNCHANGED <<clock, cookie, db, ticks, lastSend>>

\* one pass of the loop: mail.send(msg) opens a connection and sends
RetryAttempt(r, delivered, exc) ==
    /\ rq[r].pc = "retry_attempt"
    /\ LET a == rq[r].attempt
           rec == [rq[r] EXCEPT !.conns = @ + 1]
       IN  IF delivered
           THEN Finish(r, [rec EXCEPT !.okAt = a],
                       Ret(TRUE, Msg("email_sent", 0, "")), 0)
           ELSE IF a < DEFAULT_RETRY_COUNT
           THEN Step(r, [rec EXCEPT !.pc = "retry_sleep", !.fails = @ + 1])
           ELSE Finish(r, [rec EXCEPT !.fails = @ + 1],
                       Ret(FALSE, Msg("failed_after_attempts", 0, exc)), 0)
    /\ UNCHANGED <<clock, db, started, ticks, lastSend>>

\* time.sleep between two passes
RetrySleep(r) ==
    /\ rq[r].pc = "retry_sleep"
    /\ clock' = clock + RetryDelay(rq[r].attempt)
    /\ Step(r, [rq[r] EXCEPT !.pc = "retry_attempt", !.attempt = @ + 1,
                             !.sleeps = @ + 1])
    /\ UNCHANGED <<db, started, ticks, lastSend>>

----------------------------------------------------------------------------
(* Environment                                                              *)

\* time passes between two requests of the session (within a request the
\* clock advances by the sleeps of the retry loop); the locals of the request
\* that was handled are gone
Tick(d) ==
    /\ \A q \in Reqs : ~InFlight(q)
    /\ ticks < MaxTicks
    /\ ticks' = ticks + 1
    /\ clock' = clock + d
    /\ rq' = [r \in DOMAIN rq |-> IdleReq]
    /\ UNCHANGED <<cookie, db, started, lastSend>>

\* session cookies a first request may carry: a fresh session, unparseable
\* timestamps, a timestamp with a UTC offset under send_email's key
InitCookies ==
    { EmptySession,
      [inq |-> Garbage, email |-> Garbage],
      [inq |-> NoStamp, email |-> Iso(0, TRUE)] }

\* the session cart a first request may find: empty, or one line (in a
\* fresh session of a site whose configuration is complete)
InitCarts(c, d) ==
    IF c = EmptySession /\ GetCommonConfig(d).ok /\ d.smtp.active
    THEN {FilledCart(0), FilledCart(1)}
    ELSE {FilledCart(0)}

\* the database rows with everything send_inquiry and send_contact ask for
CompleteDb == [settings |-> SettingsRow(TRUE), smtp |-> SmtpRow(TRUE, TRUE, TRUE)]

\* a first request finds a fresh session over any of the database rows, or
\* a session that already holds timestamps over the complete ones
Init ==
    /\ clock = 0
    /\ cookie \in InitCookies
    /\ db \in DbCases
    /\ (cookie = EmptySession \/ db = CompleteDb)
    /\ rq = [r \in Reqs |-> IdleReq]
    /\ started = 0
    /\ ticks = 0
    /\ lastSend = NoSend
    /\ cart = <<>>
    /\ cartOp = [op |-> "none", pid |-> 0, qty |-> 0, ok |-> FALSE, msg |-> "none"]
    /\ cartBefore = <<>>
    /\ nops = 0

Next ==
    \/ \E r \in Reqs, c \in InquiryCases :
           BeginInquiry(r, c.items, c.info) /\ UNCHANGED cartVars
    \/ \E r \in Reqs, data \in DataCases : BeginContact(r, data) /\ UNCHANGED cartVars
    \/ \E r \in Reqs : InqCheckCooldown(r) /\ UNCHANGED cartVars
    \/ \E r \in Reqs : InqValidate(r) /\ UNCHANGED cartVars
    \/ \E r \in Reqs : InqGetConfig(r) /\ UNCHANGED cartVars
    \/ \E r \in Reqs : InqPrepare(r) /\ UNCHANGED cartVars
    \/ \E r \in Reqs : MailGuardStep(r) /\ UNCHANGED cartVars
    \/ \E r \in Reqs, serOK \in BOOLEAN, exc \in ExcTexts :
           MailPrepare(r, serOK, exc) /\ UNCHANGED cartVars
    \/ \E r \in Reqs, delivered \in BOOLEAN, exc \in ExcTexts :
           MailAttempt(r, delivered, exc) /\ UNCHANGED cartVars
    \/ \E r \in Reqs : MailSleep(r) /\ UNCHANGED cartVars
    \/ \E r \in Reqs : InqAfterSend(r) /\ UNCHANGED cartVars
    \/ \E r \in Reqs : ContactValidate(r) /\ UNCHANGED cartVars
    \/ \E r \in Reqs : ContactConfig(r) /\ UNCHANGED cartVars
    \/ \E r \in Reqs : ContactAfterSend(r) /\ UNCHANGED cartVars
    \/ \E r \in Reqs : BeginRetrySend(r) /\ UNCHANGED cartVars
    \/ \E r \in Reqs, delivered \in BOOLEAN, exc \in ExcTexts :
           RetryAttempt(r, delivered, exc) /\ UNCHANGED cartVars
    \/ \E r \in Reqs : RetrySleep(r) /\ UNCHANGED cartVars
    \/ \E d \in Deltas : Tick(d) /\ UNCHANGED cartVars

Spec == Init /\ [][Next]_vars

----------------------------------------------------------------------------
(* The submission endpoints of a session that may hold a cart               *)

RouteInit ==
    /\ clock = 0
    /\ cookie \in InitCookies
    /\ db \in DbCases
    /\ rq = [r \in Reqs |-> IdleReq]
    /\ started = 0
    /\ ticks = 0
    /\ lastSend = NoSend
    /\ cart \in InitCarts(cookie, db)
    /\ cartOp = [op |-> "none", pid |-> 0, qty |-> 0, ok |-> FALSE, msg |-> "none"]
    /\ cartBefore = cart
    /\ nops = 0

RouteNext ==
    \/ \E r \in Reqs, authenticated \in BOOLEAN, data \in RouteCases :
           BeginCartRoute(r, authenticated, data) /\ UNCHANGED cartVars
    \/ \E r \in Reqs : RouteCall(r) /\ UNCHANGED cartVars
    \/ \E r \in Reqs : BeginInquiryFromCart(r, ValidInfo) /\ UNCHANGED cartVars
    \/ \E r \in Reqs : BeginInquiry(r, PayloadItems, ValidInfo) /\ UNCHANGED cartVars
    \/ \E r \in Reqs, data \in DataCases : BeginContact(r, data) /\ UNCHANGED cartVars
    \/ \E r \in Reqs : InqCheckCooldown(r) /\ UNCHANGED cartVars
    \/ \E r \in Reqs : InqValidate(r) /\ UNCHANGED cartVars
    \/ \E r \in Reqs : InqGetConfig(r) /\ UNCHANGED cartVars
    \/ \E r \in Reqs : InqPrepare(r) /\ UNCHANGED cartVars
    \/ \E r \in Reqs : MailGuardStep(r) /\ UNCHANGED cartVars
    \/ \E r \in Reqs, serOK \in BOOLEAN, exc \in ExcTexts :
           MailPrepare(r, serOK, exc) /\ UNCHANGED cartVars
    \/ \E r \in Reqs, delivered \in BOOLEAN, exc \in ExcTexts :
           MailAttempt(r, delivered, exc) /\ UNCHANGED cartVars
    \/ \E r \in Reqs : MailSleep(r) /\ UNCHANGED cartVars
    \/ \E r \in Reqs : InqAfterSend(r) /\ UNCHANGED cartVars
    \/ \E r \in Reqs : ContactValidate(r) /\ UNCHANGED cartVars
    \/ \E r \in Reqs : ContactConfig(r) /\ UNCHANGED cartVars
    \/ \E r \in Reqs : ContactAfterSend(r) /\ UNCHANGED cartVars
    \/ \E d \in Deltas : Tick(d) /\ UNCHANGED cartVars

RouteSpec == RouteInit /\ [][RouteNext]_vars

----------------------------------------------------------------------------
(* Two submissions of one session handled at the same time                  *)

\* calls of send_inquiry the concurrent requests make
RaceCases ==
    { [items |-> it, info |-> ValidInfo] : it \in {<<>>, OneItem} }

\* a request arrives and loads the session cookie, whatever the other slot
\* is doing; the slots are taken in order
BeginConcurrent(r, items, info) ==
    /\ rq[r].pc = "idle"
    /\ r = started + 1
    /\ started < MaxRequests
    /\ started' = started + 1
    /\ rq' = [rq EXCEPT ![r] = NewReq("inquiry", items, info)]
    /\ UNCHANGED <<clock, cookie, db, ticks, lastSend>>

RaceInit ==
    /\ clock = 0
    /\ cookie = EmptySession
    /\ db = [settings |-> SettingsRow(TRUE), smtp |-> SmtpRow(TRUE, TRUE, TRUE)]
    /\ rq = [r \in Slots |-> IdleReq]
    /\ started = 0
    /\ ticks = 0
    /\ lastSend = NoSend
    /\ cart = <<>>
    /\ cartOp = [op |-> "none", pid |-> 0, qty |-> 0, ok |-> FALSE, msg |-> "none"]
    /\ cartBefore = <<>>
    /\ nops = 0

RaceNext ==
    \/ \E r \in Slots, c \in RaceCases :
           BeginConcurrent(r, c.items, c.info) /\ UNCHANGED cartVars
    \/ \E r \in Slots : InqCheckCooldown(r) /\ UNCHANGED cartVars
    \/ \E r \in Slots : InqValidate(r) /\ UNCHANGED cartVars
    \/ \E r \in Slots : InqGetConfig(r) /\ UNCHANGED cartVars
    \/ \E r \in Slots : InqPrepare(r) /\ UNCHANGED cartVars
    \/ \E r \in Slots : MailGuardStep(r) /\ UNCHANGED cartVars
    \/ \E r \in Slots, serOK \in BOOLEAN, exc \in ExcTexts :
           MailPrepare(r, serOK, exc) /\ UNCHANGED cartVars
    \/ \E r \in Slots, delivered \in BOOLEAN, exc \in ExcTexts :
           MailAttempt(r, delivered, exc) /\ UNCHANGED cartVars
    \/ \E r \in Slots : MailSleep(r) /\ UNCHANGED cartVars
    \/ \E r \in Slots : InqAfterSend(r) /\ UNCHANGED cartVars

RaceSpec == RaceInit /\ [][RaceNext]_vars

----------------------------------------------------------------------------
(* _prepare_attachments, line by line                                       *)

\* cart lines by their image: none, a missing file, an unreadable one, files
\* of sizes around the two caps
LineCases ==
    { [img |-> "none", size |-> 0], [img |-> "missing", size |-> 0],
      [img |-> "unreadable", size |-> 1000],
      File(1), File(1000), File(MAX_ATTACHMENT_SIZE - 1),
      File(MAX_ATTACHMENT_SIZE), File(MAX_ATTACHMENT_SIZE + 1) }

\* the items lists of at most MaxLines lines
ItemLists == UNION { [1..n -> LineCases] : n \in 0..MaxLines }

\* one pass of the for loop
PrepareStep(r) ==
    /\ rq[r].pc = "prepare_loop"
    /\ rq[r].idx < Len(rq[r].items)
    /\ Step(r, [rq[r] EXCEPT !.idx = @ + 1,
                             !.accBefore = rq[r].acc,
                             !.acc = PrepareOne(rq[r].acc, rq[r].items[rq[r].idx + 1])])
    /\ UNCHANGED <<clock, db, started, ticks, lastSend>>

\* the loop is over: return attachments, desc
PrepareReturn(r) ==
    /\ rq[r].pc = "prepare_loop"
    /\ rq[r].idx = Len(rq[r].items)
    /\ Step(r, [rq[r] EXCEPT !.pc = "done", !.assembled = TRUE,
                             !.att = rq[r].acc.att, !.reads = rq[r].acc.reads,
                             !.skipped = rq[r].acc.skipped])
    /\ UNCHANGED <<clock, db, started, ticks, lastSend>>

AttachInit ==
    /\ clock = 0
    /\ cookie = EmptySession
    /\ db = [settings |-> SettingsRow(TRUE), smtp |-> SmtpRow(TRUE, TRUE, TRUE)]
    /\ \E items \in ItemLists :
           rq = [r \in Reqs |->
                   [IdleReq EXCEPT !.pc = "prepare_loop",
                                   !.path = "prepare_attachments",
                                   !.items = items]]
    /\ started = 0
    /\ ticks = 0
    /\ lastSend = NoSend
    /\ cart = <<>>
    /\ cartOp = [op |-> "none", pid |-> 0, qty |-> 0, ok |-> FALSE, msg |-> "none"]
    /\ cartBefore = <<>>
    /\ nops = 0

AttachNext ==
    \/ \E r \in Reqs : PrepareStep(r) /\ UNCHANGED cartVars
    \/ \E r \in Reqs : PrepareReturn(r) /\ UNCHANGED cartVars

AttachSpec == AttachInit /\ [][AttachNext]_vars

----------------------------------------------------------------------------
(* Submissions under each connection setting of the SmtpConfig row          *)

\* mail_port values: plain SMTP, implicit TLS, submission
PortCases == {25, 465, 587}

\* a complete, active SmtpConfig row with the given port and flags
SmtpRowMode(port, use_ssl, use_tls) ==
    [SmtpRow(TRUE, TRUE, TRUE) EXCEPT !.port = port, !.use_ssl = use_ssl,
                                      !.use_tls = use_tls]

ModeDbCases ==
    { [settings |-> SettingsRow(TRUE), smtp |-> SmtpRowMode(p, ssl, tls)] :
          p \in PortCases, ssl \in BOOLEAN, tls \in BOOLEAN }

ModeInit ==
    /\ clock = 0
    /\ cookie = EmptySession
    /\ db \in ModeDbCases
    /\ rq = [r \in Reqs |-> IdleReq]
    /\ started = 0
    /\ ticks = 0
    /\ lastSend = NoSend
    /\ cart = <<>>
    /\ cartOp = [op |-> "none", pid |-> 0, qty |-> 0, ok |-> FALSE, msg |-> "none"]
    /\ cartBefore = <<>>
    /\ nops = 0

ModeNext ==
    \/ \E r \in Reqs : BeginInquiry(r, OneItem, ValidInfo) /\ UNCHANGED cartVars
    \/ \E r \in Reqs, data \in DataCases : BeginContact(r, data) /\ UNCHANGED cartVars
    \/ \E r \in Reqs : InqCheckCooldown(r) /\ UNCHANGED cartVars
    \/ \E r \in Reqs : InqValidate(r) /\ UNCHANGED cartVars
    \/ \E r \in Reqs : InqGetConfig(r) /\ UNCHANGED cartVars
    \/ \E r \in Reqs : InqPrepare(r) /\ UNCHANGED cartVars
    \/ \E r \in Reqs : MailGuardStep(r) /\ UNCHANGED cartVars
    \/ \E r \in Reqs, serOK \in BOOLEAN, exc \in ExcTexts :
           MailPrepare(r, serOK, exc) /\ UNCHANGED cartVars
    \/ \E r \in Reqs, delivered \in BOOLEAN, exc \in ExcTexts :
           MailAttempt(r, delivered, exc) /\ UNCHANGED cartVars
    \/ \E r \in Reqs : MailSleep(r) /\ UNCHANGED cartVars
    \/ \E r \in Reqs : InqAfterSend(r) /\ UNCHANGED cartVars
    \/ \E r \in Reqs : ContactValidate(r) /\ UNCHANGED cartVars
    \/ \E r \in Reqs : ContactConfig(r) /\ UNCHANGED cartVars
    \/ \E r \in Reqs : ContactAfterSend(r) /\ UNCHANGED cartVars

ModeSpec == ModeInit /\ [][ModeNext]_vars

----------------------------------------------------------------------------
(* Calls of send_email and _send_with_retry whose steps are all taken       *)

LiveInit ==
    /\ clock = 0
    /\ cookie = EmptySession
    /\ db = CompleteDb
    /\ rq = [r \in Reqs |-> IdleReq]
    /\ started = 0
    /\ ticks = 0
    /\ lastSend = NoSend
    /\ cart = <<>>
    /\ cartOp = [op |-> "none", pid |-> 0, qty |-> 0, ok |-> FALSE, msg |-> "none"]
    /\ cartBefore = <<>>
    /\ nops = 0

\* the callers up to their call of send_email, and after its return
LiveCallers ==
    \/ \E r \in Reqs : BeginInquiry(r, OneItem, ValidInfo) /\ UNCHANGED cartVars
    \/ \E r \in Reqs, data \in DataCases : BeginContact(r, data) /\ UNCHANGED cartVars
    \/ \E r \in Reqs : BeginRetrySend(r) /\ UNCHANGED cartVars
    \/ \E r \in Reqs : InqCheckCooldown(r) /\ UNCHANGED cartVars
    \/ \E r \in Reqs : InqValidate(r) /\ UNCHANGED cartVars
    \/ \E r \in Reqs : InqGetConfig(r) /\ UNCHANGED cartVars
    \/ \E r \in Reqs : InqPrepare(r) /\ UNCHANGED cartVars
    \/ \E r \in Reqs : InqAfterSend(r) /\ UNCHANGED cartVars
    \/ \E r \in Reqs : ContactValidate(r) /\ UNCHANGED cartVars
    \/ \E r \in Reqs : ContactConfig(r) /\ UNCHANGED cartVars
    \/ \E r \in Reqs : ContactAfterSend(r) /\ UNCHANGED cartVars

\* the steps of send_email and of _send_with_retry: each statement, each
\* connection attempt (which ends within its timeout, delivered or raising)
\* and each sleep
SendEmailStep ==
    \/ \E r \in Reqs : MailGuardStep(r) /\ UNCHANGED cartVars
    \/ \E r \in Reqs, serOK \in BOOLEAN, exc \in ExcTexts :
           MailPrepare(r, serOK, exc) /\ UNCHANGED cartVars
    \/ \E r \in Reqs, delivered \in BOOLEAN, exc \in ExcTexts :
           MailAttempt(r, delivered, exc) /\ UNCHANGED cartVars
    \/ \E r \in Reqs : MailSleep(r) /\ UNCHANGED cartVars
    \/ \E r \in Reqs, delivered \in BOOLEAN, exc \in ExcTexts :
           RetryAttempt(r, delivered, exc) /\ UNCHANGED cartVars
    \/ \E r \in Reqs : RetrySleep(r) /\ UNCHANGED cartVars

LiveNext == LiveCallers \/ SendEmailStep

\* a blocking call runs on: no statement, attempt or sleep of the two
\* functions is postponed forever
LiveSpec == LiveInit /\ [][LiveNext]_vars /\ WF_vars(SendEmailStep)

----------------------------------------------------------------------------
(* send_email lines 77-107 and 123: the MIME message, its serialisation     *)
(* and the bytes handed to the SMTP server.  A text is a sequence of code   *)
(* points, wire data are sequences of byte values.                          *)

\* longest subject of the model (too short for a header to be folded at
\* its 76 column limit)
MaxText == 3

\* 'a', ' ', U+00E9 (2 bytes), U+2028 LINE SEPARATOR, U+9152 (3 bytes)
Chars == {97, 32, 233, 8232, 37202}

Texts == UNION { [1..k -> Chars] : k \in 0..MaxText }

\* sender_name: "HF", and U+9152 U+5E97
SenderNames == { <<72, 70>>, <<37202, 24215>> }

\* '<meta charset="utf-8">\n', and the '<meta charset' looked for
MetaPrefix ==
    <<60, 109, 101, 116, 97, 32, 99, 104, 97, 114, 115, 101, 116, 61, 34,
      117, 116, 102, 45, 56, 34, 62, 10>>
MetaMark == SubSeq(MetaPrefix, 1, 13)

\* bodies: four CJK characters; '<META CHARSET="x">' and U+00E9; 'a', a line
\* feed and U+1F600 (4 bytes); 'a' and a lone surrogate, as json.loads makes
\* of "a\ud800"
BodyCases ==
    { <<37202, 24215, 23478, 20855>>,
      <<60, 77, 69, 84, 65, 32, 67, 72, 65, 82, 83, 69, 84, 61, 34, 120, 34,
        62, 233>>,
      <<97, 10, 128512>>,
      <<97, 55296>> }

\* str.encode('utf-8') of one code point
Utf8Bytes(cp) ==
    IF cp < 128 THEN << cp >>
    ELSE IF cp < 2048 THEN << 192 + (cp \div 64), 128 + (cp % 64) >>
    ELSE IF cp < 65536
         THEN << 224 + (cp \div 4096), 128 + ((cp \div 64) % 64), 128 + (cp % 64) >>
    ELSE << 240 + (cp \div 262144), 128 + ((cp \div 4096) % 64),
            128 + ((cp \div 64) % 64), 128 + (cp % 64) >>

RECURSIVE Utf8Encode(_)
Utf8Encode(s) ==
    IF s = <<>> THEN <<>> ELSE Utf8Bytes(Head(s)) \o Utf8Encode(Tail(s))

\* the utf-8 codec refuses surrogates: UnicodeEncodeError
Encodable(s) == \A i \in 1..Len(s) : s[i] \notin 55296..57343

\* the base64 alphabet
B64Char(i) ==
    IF i < 26 THEN 65 + i
    ELSE IF i < 52 THEN 97 + (i - 26)
    ELSE IF i < 62 THEN 48 + (i - 52)
    ELSE IF i = 62 THEN 43 ELSE 47

\* binascii.b2a_base64 without its trailing newline
RECURSIVE B64Encode(_)
B64Encode(b) ==
    IF Len(b) = 0 THEN <<>>
    ELSE IF Len(b) = 1
         THEN << B64Char(b[1] \div 4), B64Char((b[1] % 4) * 16), 61, 61 >>
    ELSE IF Len(b) = 2
         THEN << B64Char(b[1] \div 4),
                 B64Char(((b[1] % 4) * 16) + (b[2] \div 16)),
                 B64Char((b[2] % 16) * 4), 61 >>
    ELSE << B64Char(b[1] \div 4),
            B64Char(((b[1] % 4) * 16) + (b[2] \div 16)),
            B64Char(((b[2] % 16) * 4) + (b[3] \div 64)),
            B64Char(b[3] % 64) >> \o B64Encode(SubSeq(b, 4, Len(b)))

\* email.base64mime.header_length
B64Length(b) == 4 * ((Len(b) + 2) \div 3)

\* email.quoprimime: the bytes the Q encoding leaves as they are
QSafe == (65..90) \cup (97..122) \cup (48..57) \cup {45, 33, 42, 43, 47}

HexDigit(n) == IF n < 10 THEN 48 + n ELSE 65 + (n - 10)

QByte(c) ==
    IF c \in QSafe THEN << c >>
    ELSE IF c = 32 THEN << 95 >>
    ELSE << 61, HexDigit(c \div 16), HexDigit(c % 16) >>

RECURSIVE QEncode(_)
QEncode(b) == IF b = <<>> THEN <<>> ELSE QByte(Head(b)) \o QEncode(Tail(b))

\* email.quoprimime.header_length
QLength(b) == Len(QEncode(b))

\* Charset('utf-8').header_encode: one encoded word '=?utf-8?b?...?=' or
\* '=?utf-8?q?...?=', whichever is shorter
HeaderWord(s) ==
    LET b == Utf8Encode(s)
    IN  IF B64Length(b) < QLength(b)
        THEN [enc |-> "b", text |-> B64Encode(b)]
        ELSE [enc |-> "q", text |-> QEncode(b)]

\* the line boundaries of str.splitlines, and the white space of str.lstrip
LineBreaks == {10, 11, 12, 13, 28, 29, 30, 133, 8232, 8233}
WhiteSpace ==
    (9..13) \cup (28..32) \cup {133, 160, 5760} \cup (8192..8202)
        \cup {8232, 8233, 8239, 8287, 12288}

RECURSIVE SplitFrom(_, _, _)
SplitFrom(s, i, cur) ==
    IF i > Len(s) THEN (IF cur = <<>> THEN <<>> ELSE << cur >>)
    ELSE IF s[i] \in LineBreaks
         THEN << cur >> \o
              SplitFrom(s, IF s[i] = 13 /\ i < Len(s) /\ s[i + 1] = 10
                           THEN i + 2 ELSE i + 1, <<>>)
    ELSE SplitFrom(s, i + 1, Append(cur, s[i]))

\* str.splitlines
SplitLines(s) == SplitFrom(s, 1, <<>>)

\* str.lstrip on a text of code points
RECURSIVE LStripWs(_)
LStripWs(s) ==
    IF s # <<>> /\ Head(s) \in WhiteSpace THEN LStripWs(Tail(s)) ELSE s

\* Header(subject, 'utf-8').encode(): the first line of the string, then
\* each further line as ' ' + line.lstrip() on a continuation line; an empty
\* string gives no encoded word
HeaderEncode(s) ==
    LET lines == SplitLines(s)
    IN  IF lines = <<>> THEN <<>>
        ELSE (IF lines[1] = <<>> THEN <<>> ELSE << HeaderWord(lines[1]) >>)
             \o [ i \in 1..(Len(lines) - 1) |->
                      HeaderWord(<< 32 >> \o LStripWs(lines[i + 1])) ]

\* formataddr((str(Header(sender_name, 'utf-8')), from_addr)): the display
\* name as it is when it is ASCII, else one encoded word
FormatAddr(name) ==
    IF \A i \in 1..Len(name) : name[i] < 128
    THEN << [enc |-> "raw", text |-> name] >>
    ELSE << HeaderWord(name) >>

\* str.lower on the letters A-Z
Lower(s) ==
    [ i \in 1..Len(s) |-> IF s[i] \in 65..90 THEN s[i] + 32 ELSE s[i] ]

\* pat in s
Contains(s, pat) ==
    \E i \in 0..(Len(s) - Len(pat)) : SubSeq(s, i + 1, i + Len(pat)) = pat

\* lines 87-92: the text given to MIMEText
ComposeBody(body, is_html) ==
    IF is_html /\ ~Contains(Lower(body), MetaMark)
    THEN MetaPrefix \o body
    ELSE body

\* email.base64mime.body_encode: lines of at most 76 characters, each ended
\* by a line feed
RECURSIVE BodyEncode(_)
BodyEncode(b) ==
    IF b = <<>> THEN <<>>
    ELSE IF Len(b) <= 57 THEN B64Encode(b) \o << 10 >>
    ELSE B64Encode(SubSeq(b, 1, 57)) \o << 10 >>
         \o BodyEncode(SubSeq(b, 58, Len(b)))

NoMime == [Subject |-> <<>>, From |-> <<>>, payload |-> <<>>]

MimeIdle ==
    [ pc          |-> "idle",
      subject     |-> <<>>,
      sender_name |-> <<>>,
      body        |-> <<>>,
      is_html     |-> FALSE,
      msgSubject  |-> <<>>,     \* msg['Subject']: the Header's string
      msgFrom     |-> <<>>,     \* msg['From']
      msgPayload  |-> <<>>,     \* the payload of the MIMEText part
      msg_bytes   |-> NoMime,   \* msg.as_bytes(policy=None)
      handed      |-> NoMime ]  \* what server.sendmail was given

MimeInit ==
    /\ clock = 0
    /\ cookie = EmptySession
    /\ db = CompleteDb
    /\ rq = [r \in Reqs |-> MimeIdle]
    /\ started = 0
    /\ ticks = 0
    /\ lastSend = NoSend
    /\ cart = <<>>
    /\ cartOp = [op |-> "none", pid |-> 0, qty |-> 0, ok |-> FALSE, msg |-> "none"]
    /\ cartBefore = <<>>
    /\ nops = 0

\* send_email is called and comes to line 77
MimeCall(r, subject, sender_name, body, is_html) ==
    /\ rq[r].pc = "idle"
    /\ rq' = [rq EXCEPT ![r] =
                 [MimeIdle EXCEPT !.pc = "build", !.subject = subject,
                                  !.sender_name = sender_name,
                                  !.body = body, !.is_html = is_html]]
    /\ UNCHANGED <<clock, cookie, db, started, ticks, lastSend>>

\* lines 78-98: the headers and the text part; a string the utf-8 codec
\* refuses raises UnicodeEncodeError out of send_email
MimeBuild(r) ==
    /\ rq[r].pc = "build"
    /\ rq' = [rq EXCEPT ![r] =
                 IF Encodable(rq[r].sender_name) /\ Encodable(rq[r].subject)
                    /\ Encodable(rq[r].body)
                 THEN [@ EXCEPT
                         !.pc = "serialize",
                         !.msgFrom = FormatAddr(rq[r].sender_name),
                         !.msgSubject = rq[r].subject,
                         !.msgPayload =
                             BodyEncode(Utf8Encode(
                                 ComposeBody(rq[r].body, rq[r].is_html)))]
                 ELSE [@ EXCEPT !.pc = "raised"]]
    /\ UNCHANGED <<clock, cookie, db, started, ticks, lastSend>>

\* lines 101-107: msg.as_bytes(policy=None)
MimeSerialize(r) ==
    /\ rq[r].pc = "serialize"
    /\ rq' = [rq EXCEPT ![r] =
                 [@ EXCEPT !.pc = "sendmail",
                           !.msg_bytes =
                               [Subject |-> HeaderEncode(rq[r].msgSubject),
                                From    |-> rq[r].msgFrom,
                                payload |-> rq[r].msgPayload]]]
    /\ UNCHANGED <<clock, cookie, db, started, ticks, lastSend>>

\* line 123: server.sendmail(from_addr, to_addr, msg_bytes)
MimeSendmail(r) ==
    /\ rq[r].pc = "sendmail"
    /\ rq' = [rq EXCEPT ![r] =
                 [@ EXCEPT !.pc = "sent", !.handed = rq[r].msg_bytes]]
    /\ UNCHANGED <<clock, cookie, db, started, ticks, lastSend>>

MimeNext ==
    \/ \E r \in Reqs, subject \in Texts, sender_name \in SenderNames,
          body \in BodyCases, is_html \in BOOLEAN :
           MimeCall(r, subject, sender_name, body, is_html)
               /\ UNCHANGED cartVars
    \/ \E r \in Reqs : MimeBuild(r) /\ UNCHANGED cartVars
    \/ \E r \in Reqs : MimeSerialize(r) /\ UNCHANGED cartVars
    \/ \E r \in Reqs : MimeSendmail(r) /\ UNCHANGED cartVars

MimeSpec == MimeInit /\ [][MimeNext]_vars

----------------------------------------------------------------------------
(* CartService calls on the session cart                                    *)

\* a CartService call on the session cart
CartCall(op, pid, qty, ret) ==
    /\ nops < MaxOps
    /\ nops' = nops + 1
    /\ cartBefore' = cart
    /\ cart' = ret.cart
    /\ cartOp' = [op |-> op, pid |-> pid, qty |-> qty, ok |-> ret.ok, msg |-> ret.msg]
    /\ UNCHANGED pipeVars

DoAdd(pid, qty) == CartCall("add", pid, qty, AddToCart(cart, pid, qty))
DoUpdate(pid, qty) == CartCall("update", pid, qty, UpdateQuantity(cart, pid, qty))
DoRemove(pid) == CartCall("remove", pid, 0, RemoveFromCart(cart, pid))
DoClear == CartCall("clear", 0, 0, ClearCart(cart))

\* product ids the calls use: in a filled cart, its last line, the product
\* beyond a full cart, no product
CartPids == {1, MAX_ITEMS, MAX_ITEMS + 1, MAX_ITEMS + 2}

\* quantities the calls use
CartQtys == {-1, 0, 1, MAX_QTY_PER_ITEM - 1, MAX_QTY_PER_ITEM, MAX_QTY_PER_ITEM + 1}

CartInit ==
    /\ clock = 0
    /\ cookie = EmptySession
    /\ db = [settings |-> SettingsRow(TRUE), smtp |-> SmtpRow(TRUE, TRUE, TRUE)]
    /\ rq = [r \in Reqs |-> IdleReq]
    /\ started = 0
    /\ ticks = 0
    /\ lastSend = NoSend
    /\ cart \in {FilledCart(0), FilledCart(MAX_ITEMS - 1), FilledCart(MAX_ITEMS)}
    /\ cartOp = [op |-> "none", pid |-> 0, qty |-> 0, ok |-> FALSE, msg |-> "none"]
    /\ cartBefore = cart
    /\ nops = 0

CartNext ==
    \/ \E pid \in CartPids, qty \in CartQtys : DoAdd(pid, qty)
    \/ \E pid \in CartPids, qty \in CartQtys : DoUpdate(pid, qty)
    \/ \E pid \in CartPids : DoRemove(pid)
    \/ DoClear

CartSpec == CartInit /\ [][CartNext]_vars

----------------------------------------------------------------------------
(* Properties of the e-mail pipeline, checked under Spec                    *)

Done(r) == rq[r].pc = "done"

\* the request's message was delivered
Delivered(r) == rq[r].okAt > 0
InquiryDone(r) == Done(r) /\ rq[r].path = "inquiry"

Window == COOLDOWN_SECONDS * TicksPerSec

\* time from the last successful submission to this one's cooldown check
SinceLastSend(r) == rq[r].chkAt - rq[r].prev.t

\* the submission's fields pass _validate_input and the configuration is usable
InputValid(r) == ValidateInput(rq[r].info, rq[r].items # <<>>).ok
ConfigValid == GetCommonConfig(db).ok

\* C1: for submissions through InquiryService.send_inquiry, when the last
\* successful submission of the session was one of them and returned at time
\* t: a submission whose cooldown check runs less than 120 s after t is
\* refused with the 'Please wait' result and opens no SMTP connection; one
\* that runs 120 s or more after t, with valid fields, usable configuration,
\* a message that serializes and a transport that delivers within the
\* retries, succeeds.
C1_CooldownWindow ==
    \A r \in Reqs :
        (InquiryDone(r) /\ rq[r].prev.path = "inquiry") =>
            /\ SinceLastSend(r) < Window =>
                   /\ ~rq[r].out.ok
                   /\ rq[r].out.msg.kind = "please_wait"
                   /\ rq[r].conns = 0
                   /\ rq[r].mailCalls = 0
            /\ ( /\ SinceLastSend(r) >= Window
                 /\ InputValid(r) /\ ConfigValid
                 /\ ~rq[r].serFail
                 /\ rq[r].fails < max_retries ) => rq[r].out.ok

\* a submission exactly 120 s after the last successful one is delivered
C1_Witness ==
    \E r \in Reqs :
        /\ InquiryDone(r) /\ rq[r].prev.path = "inquiry"
        /\ SinceLastSend(r) = Window
        /\ rq[r].out.ok

\* a submission half a second before the window ends is refused
C1_WitnessRefused ==
    \E r \in Reqs :
        /\ InquiryDone(r) /\ rq[r].prev.path = "inquiry"
        /\ SinceLastSend(r) = Window - 1
        /\ rq[r].out.msg.kind = "please_wait"

\* C2: both session timestamps ('last_inquiry_time', 'last_email_send_time')
\* stay exactly as they were when the submission began, in the request's
\* session and in the cookie, unless an SMTP attempt of that submission
\* delivered; a submission that returns failure has delivered nothing.
C2_TimestampsOnlyOnSuccess ==
    \A r \in Reqs :
        /\ (rq[r].pc # "idle" /\ rq[r].okAt = 0) =>
               /\ rq[r].sess = rq[r].sess0
               /\ cookie = rq[r].sess0
               /\ ~rq[r].modified
        /\ (Done(r) /\ ~rq[r].out.ok) => rq[r].okAt = 0

\* all retries of a submission failed in a session that holds the timestamps
\* of an earlier delivery
C2_Witness ==
    \E r \in Reqs :
        /\ Done(r) /\ rq[r].path \in {"inquiry", "contact"}
        /\ rq[r].fails = max_retries
        /\ rq[r].sess0.email.k = "iso" /\ ~rq[r].sess0.email.aware
        /\ cookie = rq[r].sess0

\* C7: a call of send_email (and of MailService._send_with_retry) opens at
\* most max_retries connections, one per attempt, none after the attempt
\* that delivered, and once it reached the retry loop it returns failure
\* exactly when all max_retries attempts failed.
C7_BoundedRetries ==
    \A r \in Reqs :
        /\ rq[r].conns <= max_retries
        /\ rq[r].conns = rq[r].fails + (IF rq[r].okAt > 0 THEN 1 ELSE 0)
        /\ rq[r].okAt > 0 => rq[r].conns = rq[r].okAt
        /\ rq[r].pc \in {"mail_sleep", "retry_sleep"} => rq[r].conns = rq[r].attempt
        /\ (rq[r].pc \in {"after_send", "done"} /\ rq[r].attempt >= 1) =>
               /\ rq[r].conns = rq[r].attempt
               /\ IF rq[r].path = "retry_send"
                  THEN ~rq[r].out.ok <=> rq[r].fails = DEFAULT_RETRY_COUNT
                  ELSE ~rq[r].mailret.ok <=> rq[r].fails = max_retries

\* send_email delivers at its third attempt
C7_Witness ==
    \E r \in Reqs :
        /\ rq[r].pc = "after_send"
        /\ rq[r].okAt = max_retries /\ rq[r].fails = max_retries - 1
        /\ rq[r].mailret.ok

\* the stored value cannot be used by the guard of send_email: fromisoformat
\* raises, or the subtraction from the naive now raises
MailStampUnusable(stamp) == stamp.k = "garbage" \/ (stamp.k = "iso" /\ stamp.aware)

\* C8: a stored cooldown timestamp that cannot be parsed never blocks:
\* _check_cooldown answers 'allowed' for a malformed 'last_inquiry_time' and
\* the guard of send_email lets a malformed 'last_email_send_time' pass.
C8_FailOpen ==
    \A r \in Reqs :
        /\ (rq[r].chk # "none" /\ rq[r].sess0.inq.k = "garbage") =>
               rq[r].chk = "allowed"
        /\ (rq[r].mailCalls > 0 /\ MailStampUnusable(rq[r].sess0.email)) =>
               rq[r].mailret.msg.kind # "mail_wait"

\* a submission is delivered from a session whose two timestamps are garbage
C8_Witness ==
    \E r \in Reqs :
        /\ InquiryDone(r)
        /\ rq[r].sess0.inq.k = "garbage" /\ rq[r].sess0.email.k = "garbage"
        /\ rq[r].out.ok

\* the customer_info has no usable phone: absent, empty or blank
PhoneBlank(info) == "phone" \notin DOMAIN info \/ Strip(info["phone"]) = <<>>

PhoneDemanded(r) ==
    rq[r].out.msg.kind = "provide_field" /\ rq[r].out.msg.text = "phone"

\* C9: send_inquiry with items = [] never fails for a missing phone;
\* send_inquiry with non-empty items and a missing or blank phone returns
\* failure without calling send_email or opening a connection, and when the
\* cooldown check let it through the failure is a validation failure.
C9_PhoneByShape ==
    \A r \in Reqs :
        InquiryDone(r) =>
            /\ rq[r].items = <<>> => ~PhoneDemanded(r)
            /\ (rq[r].items # <<>> /\ PhoneBlank(rq[r].info)) =>
                   /\ ~rq[r].out.ok
                   /\ rq[r].mailCalls = 0 /\ rq[r].conns = 0
                   /\ rq[r].chk = "allowed" =>
                          rq[r].out.msg.kind = "provide_field"

\* a product inquiry without a phone key is refused for its phone
C9_Witness ==
    \E r \in Reqs :
        /\ InquiryDone(r) /\ rq[r].items # <<>>
        /\ "phone" \notin DOMAIN rq[r].info
        /\ PhoneDemanded(r)

\* a contact-only submission without a phone key is delivered
C9_WitnessContact ==
    \E r \in Reqs :
        /\ InquiryDone(r) /\ rq[r].items = <<>>
        /\ "phone" \notin DOMAIN rq[r].info
        /\ rq[r].out.ok

NameGiven(info) == Strip(GetStr(info, "name")) # <<>>

\* the submitted e-mail address has an '@' and a '.' after its last '@'
EmailGiven(info) == EmailWellFormed(Strip(GetStr(info, "email")))

\* C11: on both submission paths no SMTP connection is opened unless the
\* customer name is non-blank and the e-mail address holds an '@' and a '.'
\* after its last '@'; a submission with a malformed address ends as a
\* failure without any SMTP attempt.
C11_ValidatedBeforeSend ==
    \A r \in Reqs :
        rq[r].path \in {"inquiry", "contact"} =>
            /\ rq[r].conns > 0 => NameGiven(rq[r].info) /\ EmailGiven(rq[r].info)
            /\ (Done(r) /\ ~EmailGiven(rq[r].info)) =>
                   ~rq[r].out.ok /\ rq[r].conns = 0

\* the request came in through one of the two submission endpoints
EndpointDone(r) ==
    Done(r) /\ (rq[r].path \in {"contact", "cart_route"} \/ rq[r].viaRoute)

\* the kinds of failure a finished request ended with
ValidationFailure(r) ==
    rq[r].out.msg.kind \in {"contact_required", "no_products", "list_empty",
                            "fill_required", "provide_field", "invalid_email"}
CooldownRejection(r) ==
    rq[r].chk = "denied" \/ rq[r].mailret.msg.kind = "mail_wait"
ConfigFailure(r) ==
    rq[r].out.msg.kind \in {"mail_not_configured", "no_recipient",
                            "missing_recipient", "smtp_incomplete"}
    \/ rq[r].mailret.msg.kind = "mail_config"
TransportFailure(r) == rq[r].fails = max_retries

\* C12: the status of the response of /cart/send-inquiry and /contact/send
\* is 200 exactly when the message was delivered, 400 for a validation
\* failure, 429 for a cooldown rejection, 500 for a configuration failure
\* and for a transport failure after the retries.
C12_StatusByOutcome ==
    \A r \in Reqs :
        EndpointDone(r) =>
            /\ rq[r].status = 200 <=> rq[r].okAt > 0
            /\ rq[r].okAt > 0 => rq[r].out.ok
            /\ ValidationFailure(r) => rq[r].status = 400
            /\ CooldownRejection(r) => rq[r].status = 429
            /\ ConfigFailure(r) => rq[r].status = 500
            /\ TransportFailure(r) => rq[r].status = 500

\* send_email's result with the exception text e in place of the one raised
WithExcText(mailret, e) == [mailret EXCEPT !.msg.text = e]

\* the response body the caller of send_email builds from its result
ResponseBody(path, mailret) ==
    IF path = "contact" THEN ContactResponse(mailret).out
                        ELSE InquiryResult(mailret)

\* C13: when the transport failed, the response body of a submission is the
\* same whatever exception text the transport raised, on the inquiry path
\* and on the contact path.
C13_BodyIndependentOfException ==
    \A r \in Reqs :
        ( /\ rq[r].pc = "after_send"
          /\ rq[r].path \in {"inquiry", "contact"}
          /\ rq[r].fails = max_retries ) =>
            \A e \in ExcTexts :
                ResponseBody(rq[r].path, WithExcText(rq[r].mailret, e))
                    = ResponseBody(rq[r].path, rq[r].mailret)

\* the stored configuration cannot be used: no Settings row or no recipient
\* address, no SmtpConfig row, one of server / port / username / password
\* missing, or the SMTP configuration marked inactive
ConfigUnusable(d) ==
    \/ ~d.settings.exists \/ ~d.settings.email1
    \/ ~d.smtp.exists \/ ~SmtpComplete(d.smtp)
    \/ ~d.smtp.active

\* C14: a submission made while the configuration is unusable opens no SMTP
\* connection and returns a failure, on the inquiry path and on the contact
\* path.
C14_NoConnectionWhenUnusable ==
    \A r \in Reqs :
        (rq[r].path \in {"inquiry", "contact"} /\ ConfigUnusable(db)) =>
            /\ rq[r].conns = 0
            /\ Done(r) => ~rq[r].out.ok

\* C18: a product inquiry through send_inquiry that passed the cooldown
\* check, the validation and the configuration check always reaches the
\* call of send_email, whatever its image files are (missing, oversized,
\* unreadable), and returns success whenever an SMTP attempt delivered.
C18_AttachmentsNeverAbort ==
    \A r \in Reqs :
        (rq[r].path = "inquiry" /\ rq[r].items # <<>>) =>
            /\ ( /\ Done(r)
                 /\ rq[r].chk = "allowed" /\ InputValid(r) /\ ConfigValid ) =>
                   /\ rq[r].assembled
                   /\ rq[r].mailCalls = 1
            /\ (Done(r) /\ Delivered(r)) => rq[r].out.ok

\* an inquiry with a missing, an oversized and an unreadable image is
\* delivered with the one image that could be attached
C18_Witness ==
    \E r \in Reqs :
        /\ InquiryDone(r) /\ rq[r].items = MixedItems
        /\ rq[r].skipped = 3 /\ rq[r].nmsg = 1
        /\ rq[r].out.ok

\* the request is a POST to /cart/send-inquiry
CartRouteRequest(r) == rq[r].path = "cart_route" \/ rq[r].viaRoute

\* C19: a POST to /cart/send-inquiry with a non-empty items list, valid
\* name, email and phone, a complete and active configuration, no cooldown
\* timestamp in the session and a transport that refuses nothing returns
\* success (status 200) after exactly one SMTP connection, which delivered.
C19_ValidCartInquiryDelivered ==
    \A r \in Reqs :
        ( /\ Done(r) /\ CartRouteRequest(r)
          /\ rq[r].items # <<>>
          /\ ValidateInput(rq[r].info, TRUE).ok
          /\ ~ConfigUnusable(db)
          /\ rq[r].sess0 = EmptySession
          /\ rq[r].fails = 0 /\ ~rq[r].serFail ) =>
            /\ rq[r].out.ok /\ rq[r].status = 200
            /\ rq[r].conns = 1 /\ Delivered(r)

\* C20: once a cart inquiry whose items are the lines of the session cart
\* has succeeded, the session cart is empty.
C20_CartClearedOnSubmission ==
    \A r \in Reqs :
        (Done(r) /\ rq[r].fromSession /\ rq[r].out.ok) => cart = <<>>

----------------------------------------------------------------------------
(* Properties of _prepare_attachments, checked under AttachSpec             *)

RECURSIVE SumSizes(_)
SumSizes(att) == IF att = <<>> THEN 0 ELSE Head(att) + SumSizes(Tail(att))

\* the line's file is missing, or larger than the per-file cap, or would
\* take the attachments beyond the total cap
FileRefused(it, att) ==
    \/ it.img = "missing"
    \/ /\ it.img \in {"file", "unreadable"}
       /\ \/ it.size > MAX_ATTACHMENT_SIZE
          \/ SumSizes(att) + it.size > MAX_TOTAL_ATTACHMENTS_SIZE

\* the line's file exists, can be read and fits both caps
FileFits(it, att) ==
    /\ it.img = "file"
    /\ it.size <= MAX_ATTACHMENT_SIZE
    /\ SumSizes(att) + it.size <= MAX_TOTAL_ATTACHMENTS_SIZE

\* C17: for every list of cart lines, at every point of
\* _prepare_attachments each attachment is at most MAX_ATTACHMENT_SIZE and
\* the attachments sum to at most MAX_TOTAL_ATTACHMENTS_SIZE; a line whose
\* file is missing or violates either cap adds one entry to the skipped list
\* and no attachment; a line whose file fits is attached whatever was
\* skipped before it; the function returns after the last line with the
\* attachments of the one-call form.
C17_AttachmentCaps ==
    \A r \in Reqs :
        rq[r].path = "prepare_attachments" =>
            LET acc == rq[r].acc
                b == rq[r].accBefore
            IN  /\ \A i \in 1..Len(acc.att) : acc.att[i] <= MAX_ATTACHMENT_SIZE
                /\ SumSizes(acc.att) <= MAX_TOTAL_ATTACHMENTS_SIZE
                /\ rq[r].idx >= 1 =>
                       LET it == rq[r].items[rq[r].idx]
                       IN  /\ FileRefused(it, b.att) =>
                                  /\ acc.skipped = b.skipped + 1
                                  /\ acc.att = b.att
                           /\ FileFits(it, b.att) =>
                                  /\ acc.att = Append(b.att, it.size)
                                  /\ acc.skipped = b.skipped
                /\ Done(r) =>
                       /\ rq[r].idx = Len(rq[r].items)
                       /\ rq[r].att = PrepareAttachments(rq[r].items).att
                       /\ rq[r].skipped = PrepareAttachments(rq[r].items).skipped

\* a file is attached after a file refused for the total cap was skipped,
\* and the attachments reach the total cap exactly
C17_Witness ==
    \E r \in Reqs :
        /\ Done(r) /\ rq[r].path = "prepare_attachments"
        /\ rq[r].items = << File(MAX_ATTACHMENT_SIZE), File(MAX_ATTACHMENT_SIZE - 1),
                            File(1000), File(1) >>
        /\ rq[r].skipped = 1
        /\ rq[r].att = <<MAX_ATTACHMENT_SIZE, MAX_ATTACHMENT_SIZE - 1, 1>>
        /\ SumSizes(rq[r].att) = MAX_TOTAL_ATTACHMENTS_SIZE

----------------------------------------------------------------------------
(* Properties of the connection mode, checked under ModeSpec                *)

\* C16: every SMTP attempt of send_email connects with implicit TLS
\* (SMTP_SSL) when the port is 465, whatever the use_ssl / use_tls flags,
\* and when use_ssl is set; STARTTLS is issued only when use_tls is set and
\* the connection is not an implicit-TLS one, so no attempt uses both.
C16_ConnectionMode ==
    \A r \in Reqs :
        rq[r].conns > 0 =>
            /\ db.smtp.port = 465 => rq[r].connClass = "SMTP_SSL"
            /\ db.smtp.use_ssl => rq[r].connClass = "SMTP_SSL"
            /\ rq[r].connClass \in {"SMTP_SSL", "SMTP"}
            /\ rq[r].starttls => db.smtp.use_tls /\ rq[r].connClass = "SMTP"
            /\ ~(rq[r].connClass = "SMTP_SSL" /\ rq[r].starttls)
            /\ (rq[r].connClass = "SMTP" /\ db.smtp.use_tls) => rq[r].starttls

\* a message is delivered over implicit TLS, without STARTTLS, by a row
\* with port 465 whose flags ask for STARTTLS and no SSL
C16_Witness ==
    \E r \in Reqs :
        /\ Delivered(r)
        /\ db.smtp.port = 465 /\ ~db.smtp.use_ssl /\ db.smtp.use_tls
        /\ rq[r].connClass = "SMTP_SSL" /\ ~rq[r].starttls

----------------------------------------------------------------------------
(* Properties of concurrent submissions, checked under RaceSpec             *)

\* the cooldown state the request loaded lets a submission through at the
\* times the request reads it
ReadAllowed(r) ==
    /\ CheckCooldown(rq[r].sess0.inq, rq[r].chkAt).allowed
    /\ MailGuard(rq[r].sess0.email, rq[r].now).allowed

\* a stored pair of timestamps as one request writes it
WellFormedSession(sess) ==
    /\ sess.inq.k \in {"none", "iso"} /\ (sess.inq.k = "iso" => sess.inq.aware)
    /\ sess.email.k \in {"none", "iso"} /\ (sess.email.k = "iso" => ~sess.email.aware)

\* C15: with two submissions of one session in flight at once, a message is
\* delivered only for a request whose loaded cooldown state allowed it (so
\* only requests that read before the other one wrote get through, at most
\* both of them); the cookie always holds the untouched initial session or
\* the whole session of one finished request, with well-formed timestamps;
\* and after the last write it is the session of the request that wrote
\* last.
C15_LastWriteWins ==
    /\ \A r \in Slots : Delivered(r) => ReadAllowed(r)
    /\ WellFormedSession(cookie)
    /\ \/ cookie = EmptySession /\ lastSend = NoSend
       \/ \E r \in Slots : Done(r) /\ rq[r].modified /\ cookie = rq[r].sess
    /\ \A r \in Slots :
           (Done(r) /\ lastSend.by = r) => cookie = rq[r].sess

\* both requests read 'allowed' before either wrote, both were delivered,
\* and the cookie holds the session of the one that finished last, which
\* differs from the other's
C15_Witness ==
    /\ \A r \in Slots :
           /\ Done(r) /\ rq[r].out.ok
           /\ rq[r].sess0 = EmptySession
    /\ rq[1].sess # rq[2].sess
    /\ lastSend.by = 1
    /\ cookie = rq[1].sess

\* the second request arrived after the first one's write and was refused
C15_WitnessRefused ==
    /\ Done(1) /\ rq[1].out.ok
    /\ Done(2) /\ rq[2].sess0 = rq[1].sess
    /\ rq[2].out.msg.kind = "please_wait"

----------------------------------------------------------------------------
(* Properties of the cart, checked under CartSpec                           *)

LineQty(items, pid) == items[FirstIndex(items, pid)].qty

\* C3: every line of the session cart has a quantity between 1 and
\* MAX_QTY_PER_ITEM.
C3_QtyInRange ==
    \A i \in 1..Len(cart) : cart[i].qty >= 1 /\ cart[i].qty <= MAX_QTY_PER_ITEM

\* C4: the cart never holds more than MAX_ITEMS lines; add_to_cart of a
\* product not in a cart of MAX_ITEMS lines fails and leaves the lines as
\* they were; add_to_cart of a product that is in a full cart is never
\* refused for fullness and succeeds when the quantities allow it.
C4_MaxItems ==
    /\ Len(cart) <= MAX_ITEMS
    /\ (cartOp.op = "add" /\ Len(cartBefore) >= MAX_ITEMS) =>
           IF ~InCart(cartBefore, cartOp.pid)
           THEN ~cartOp.ok /\ cart = cartBefore
           ELSE /\ cartOp.msg # "cart_full"
                /\ ( /\ cartOp.qty >= 1
                     /\ LineQty(cartBefore, cartOp.pid) + cartOp.qty <= MAX_QTY_PER_ITEM )
                   => /\ cartOp.ok
                      /\ Len(cart) = Len(cartBefore)
                      /\ LineQty(cart, cartOp.pid)
                             = LineQty(cartBefore, cartOp.pid) + cartOp.qty

\* a product of a full cart is added once more
C4_Witness ==
    /\ cartOp.op = "add" /\ cartOp.ok
    /\ Len(cartBefore) = MAX_ITEMS /\ Len(cart) = MAX_ITEMS

\* a new product is refused by a full cart
C4_WitnessRefused ==
    /\ cartOp.op = "add" /\ cartOp.msg = "cart_full"
    /\ Len(cartBefore) = MAX_ITEMS /\ cart = cartBefore

\* add_to_cart(p, q) on a cart without p left one line for p, of quantity q
AddedNewLine ==
    /\ cartOp.ok
    /\ Len(cart) = Len(cartBefore) + 1
    /\ InCart(cart, cartOp.pid)
    /\ LineQty(cart, cartOp.pid) = cartOp.qty

\* add_to_cart(p, q2) on a cart whose line for p has a quantity q in
\* [1, MAX_QTY_PER_ITEM], q2 >= 1: q + q2 if that is within the limit,
\* else the limit-exceeded failure and the quantity still q
AddedAgain ==
    LET q == LineQty(cartBefore, cartOp.pid)
    IN  (q >= 1 /\ q <= MAX_QTY_PER_ITEM /\ cartOp.qty >= 1) =>
            IF q + cartOp.qty <= MAX_QTY_PER_ITEM
            THEN cartOp.ok /\ LineQty(cart, cartOp.pid) = q + cartOp.qty
            ELSE ~cartOp.ok /\ cartOp.msg = "qty_limit" /\ cart = cartBefore

\* C5 as stated: for every existing product p and q in [1, MAX_QTY_PER_ITEM],
\* add_to_cart(p, q) on a cart without p yields a line for p of quantity q; a
\* further add_to_cart(p, q2) yields q + q2 when that is within the limit and
\* otherwise fails with limit-exceeded, the quantity staying q.
C5_AddThenGet ==
    (cartOp.op = "add" /\ ProductExists(cartOp.pid)) =>
        IF InCart(cartBefore, cartOp.pid)
        THEN AddedAgain
        ELSE (cartOp.qty >= 1 /\ cartOp.qty <= MAX_QTY_PER_ITEM) => AddedNewLine

\* C5 amended: the same, for a cart without p that holds fewer than
\* MAX_ITEMS lines (a full cart refuses the new product).
C5_AddThenGetBelowLimit ==
    (cartOp.op = "add" /\ ProductExists(cartOp.pid)) =>
        IF InCart(cartBefore, cartOp.pid)
        THEN AddedAgain
        ELSE ( /\ cartOp.qty >= 1 /\ cartOp.qty <= MAX_QTY_PER_ITEM
               /\ Len(cartBefore) < MAX_ITEMS ) => AddedNewLine

\* a second add brings a line exactly to MAX_QTY_PER_ITEM
C5_Witness ==
    /\ cartOp.op = "add" /\ cartOp.ok
    /\ InCart(cartBefore, cartOp.pid)
    /\ LineQty(cartBefore, cartOp.pid) < MAX_QTY_PER_ITEM
    /\ LineQty(cart, cartOp.pid) = MAX_QTY_PER_ITEM

\* what remove(id) does to a cart: the lines of other products, in order
WithoutProduct(items, pid) == SelectSeq(items, LAMBDA l : l.id # pid)

\* C6: update_quantity(id, q) with q < 1 and remove_from_cart(id) return the
\* same result and leave the same cart: success and the cart without the
\* product when it was in the cart, failure and the cart unchanged when it
\* was not; after a successful remove the id is not in the cart, so removing
\* it again fails and changes nothing.
C6_UpdateBelowOneIsRemove ==
    (cartOp.op = "remove" \/ (cartOp.op = "update" /\ cartOp.qty < 1)) =>
        /\ cartOp.ok = InCart(cartBefore, cartOp.pid)
        /\ cartOp.msg = IF cartOp.ok THEN "removed" ELSE "not_in_cart"
        /\ cart = WithoutProduct(cartBefore, cartOp.pid)
        /\ ~cartOp.ok => cart = cartBefore
        /\ ~InCart(cart, cartOp.pid)
        /\ RemoveFromCart(cart, cartOp.pid) = CartRet(FALSE, "not_in_cart", cart)

\* update_quantity(id, 0) removed a line
C6_Witness ==
    /\ cartOp.op = "update" /\ cartOp.qty = 0 /\ cartOp.ok
    /\ Len(cart) = Len(cartBefore) - 1

\* the lines of a cart other than the product's, each with its position
OtherLines(items, pid) ==
    { <<i, items[i]>> : i \in { j \in 1..Len(items) : items[j].id # pid } }

\* the cases in which a CartService call is to fail, by its arguments and
\* the cart it found
MustFail ==
    \/ /\ cartOp.op = "add"
       /\ \/ cartOp.qty < 1
          \/ ~ProductExists(cartOp.pid)
          \/ Len(cartBefore) >= MAX_ITEMS /\ ~InCart(cartBefore, cartOp.pid)
          \/ /\ InCart(cartBefore, cartOp.pid)
             /\ LineQty(cartBefore, cartOp.pid) + cartOp.qty > MAX_QTY_PER_ITEM
    \/ /\ cartOp.op = "update"
       /\ \/ cartOp.qty > MAX_QTY_PER_ITEM
          \/ ~InCart(cartBefore, cartOp.pid)
    \/ /\ cartOp.op = "remove"
       /\ ~InCart(cartBefore, cartOp.pid)

\* C27: a failed cart operation leaves the lines (ids, quantities, order) as
\* they were: add_to_cart with qty < 1, an unknown product, a new product on
\* a full cart or a quantity that would take an existing line over
\* MAX_QTY_PER_ITEM; update_quantity with qty > MAX_QTY_PER_ITEM or an id
\* not in the cart; remove_from_cart of an id not in the cart. A successful
\* update_quantity (qty >= 1) sets the quantity of the targeted line and a
\* successful remove drops it; the other lines keep their content and order.
C27_FailedOpsChangeNothing ==
    /\ MustFail => ~cartOp.ok
    /\ (cartOp.op # "none" /\ ~cartOp.ok) => cart = cartBefore
    /\ (cartOp.op = "update" /\ cartOp.qty >= 1 /\ cartOp.ok) =>
           /\ Len(cart) = Len(cartBefore)
           /\ OtherLines(cart, cartOp.pid) = OtherLines(cartBefore, cartOp.pid)
           /\ LineQty(cart, cartOp.pid) = cartOp.qty
           /\ FirstIndex(cart, cartOp.pid) = FirstIndex(cartBefore, cartOp.pid)
    /\ ((cartOp.op = "remove" \/ (cartOp.op = "update" /\ cartOp.qty < 1))
           /\ cartOp.ok) =>
           /\ Len(cart) = Len(cartBefore) - 1
           /\ cart = WithoutProduct(cartBefore, cartOp.pid)

\* an update beyond MAX_QTY_PER_ITEM of a line of a filled cart was refused
C27_Witness ==
    /\ cartOp.op = "update" /\ cartOp.qty > MAX_QTY_PER_ITEM
    /\ InCart(cartBefore, cartOp.pid) /\ Len(cartBefore) > 1
    /\ ~cartOp.ok /\ cart = cartBefore

\* a removal of a product that is not in a filled cart was refused
C27_WitnessRemove ==
    /\ cartOp.op = "remove" /\ ~InCart(cartBefore, cartOp.pid)
    /\ Len(cartBefore) > 1 /\ ~cartOp.ok /\ cart = cartBefore

\* C28: no two lines of the session cart have the same product id; an
\* add_to_cart of a product that is in the cart never appends a line, and
\* when it succeeds it changes the quantity of the existing line only.
C28_OneLinePerProduct ==
    /\ \A i, j \in 1..Len(cart) : cart[i].id = cart[j].id => i = j
    /\ (cartOp.op = "add" /\ InCart(cartBefore, cartOp.pid)) =>
           /\ Len(cart) = Len(cartBefore)
           /\ \A i \in 1..Len(cart) : cart[i].id = cartBefore[i].id
           /\ OtherLines(cart, cartOp.pid) = OtherLines(cartBefore, cartOp.pid)
           /\ cartOp.ok =>
                  LineQty(cart, cartOp.pid)
                      = LineQty(cartBefore, cartOp.pid) + cartOp.qty

\* a product of the cart was added again and its line grew
C28_Witness ==
    /\ cartOp.op = "add" /\ cartOp.ok
    /\ InCart(cartBefore, cartOp.pid)
    /\ Len(cart) = Len(cartBefore) /\ Len(cart) > 1
    /\ LineQty(cart, cartOp.pid) > LineQty(cartBefore, cartOp.pid)

\* the quantities of the lines from position i on, added up
RECURSIVE QtyFrom(_, _)
QtyFrom(items, i) ==
    IF i > Len(items) THEN 0 ELSE items[i].qty + QtyFrom(items, i + 1)

\* C29: get_cart_summary returns total_items = the sum of the line
\* quantities and unique_items = the number of lines; is_empty is true
\* exactly when unique_items = 0, which is exactly when total_items = 0;
\* after clear_cart the summary is {0, 0, true} and a second clear_cart
\* changes nothing.
C29_SummaryConsistent ==
    LET sum == GetCartSummary(cart)
    IN  /\ sum.total_items = QtyFrom(cart, 1)
        /\ sum.unique_items = Len(cart)
        /\ sum.is_empty = (sum.unique_items = 0)
        /\ (sum.unique_items = 0) = (sum.total_items = 0)
        /\ cartOp.op = "clear" =>
               /\ sum = [total_items |-> 0, unique_items |-> 0, is_empty |-> TRUE]
               /\ ClearCart(cart).cart = cart

\* a filled cart whose lines differ in quantity was cleared
C29_Witness ==
    /\ cartOp.op = "clear"
    /\ Len(cartBefore) > 1
    /\ GetCartSummary(cartBefore).total_items > Len(cartBefore)
    /\ GetCartSummary(cart).is_empty

----------------------------------------------------------------------------
(* The cooldown across the two submission paths                             *)

\* the request is a finished call of send_inquiry or of /contact/send
SubmissionDone(r) == Done(r) /\ rq[r].path \in {"inquiry", "contact"}

\* the fields and the configuration let the submission through to send_email
Sendable(r) ==
    IF rq[r].path = "inquiry"
    THEN InputValid(r) /\ ConfigValid
    ELSE /\ rq[r].info.name # <<>> /\ rq[r].info.email # <<>>
         /\ rq[r].info.message # <<>>
         /\ db.smtp.exists /\ db.smtp.active /\ ToAddrPresent("contact", db)

\* the caller was told to wait
WaitAnswer(r) == rq[r].out.msg.kind \in {"please_wait", "mail_wait"}

\* the time at which the submission began
BeganAt(r) == IF rq[r].path = "inquiry" THEN rq[r].chkAt ELSE rq[r].now

\* C21: within 120 s after a successful send on one path (send_inquiry or
\* /contact/send), a submission on the other path in the same session opens
\* no SMTP connection and is answered with the rate-limit outcome: a wait
\* message, and HTTP 429 where the path has a status.
C21_SharedCooldown ==
    \A r \in Reqs :
        ( /\ SubmissionDone(r) /\ Sendable(r)
          /\ rq[r].prev.path \in {"inquiry", "contact"}
          /\ rq[r].prev.path # rq[r].path
          /\ BeganAt(r) - rq[r].prev.t < Window ) =>
            /\ rq[r].conns = 0
            /\ ~rq[r].out.ok
            /\ WaitAnswer(r)
            /\ rq[r].path = "contact" => rq[r].status = 429

\* the ticks from the timestamp the guard read to the guard's clock
WaitElapsed(r) ==
    IF rq[r].path = "inquiry"
    THEN rq[r].chkAt - rq[r].sess0.inq.t
    ELSE rq[r].now - rq[r].sess0.email.t

\* a number of ticks in whole minutes, rounded up
CeilMinutes(t) == (t + 60 * TicksPerSec - 1) \div (60 * TicksPerSec)

\* C22: when the cooldown refuses a submission, the minutes of the message
\* are (120 s - elapsed) rounded up to whole minutes, hence at least 1 for
\* every elapsed time in [0, 120).
C22_MinutesRoundedUp ==
    \A r \in Reqs :
        (SubmissionDone(r) /\ WaitAnswer(r)) =>
            /\ rq[r].out.msg.mins = CeilMinutes(Window - WaitElapsed(r))
            /\ rq[r].out.msg.mins >= 1

\* the time at which the finished submission arrived: the clock moves
\* within a submission only in the sleeps of send_email, which come after
\* its guard
ArrivedAt(r) ==
    IF rq[r].path = "inquiry" THEN rq[r].chkAt
    ELSE IF rq[r].mailCalls > 0 THEN rq[r].now
    ELSE clock

\* the guard of the submission's path refuses the session it arrived with
CooldownActive(r) ==
    IF rq[r].path = "inquiry"
    THEN ~CheckCooldown(rq[r].sess0.inq, ArrivedAt(r)).allowed
    ELSE ~MailGuard(rq[r].sess0.email, ArrivedAt(r)).allowed

\* C24: the steps run in the order cooldown check, field validation,
\* configuration check, attachment assembly, composition, delivery: a
\* submission made while the cooldown is active is answered with the
\* rate-limit result whether or not its fields are valid, and no attachment
\* is assembled or read and no SMTP connection is opened for it.
C24_CooldownCheckedFirst ==
    \A r \in Reqs :
        (SubmissionDone(r) /\ CooldownActive(r)) =>
            /\ ~rq[r].out.ok
            /\ WaitAnswer(r)
            /\ ~rq[r].assembled
            /\ rq[r].reads = 0
            /\ rq[r].conns = 0

----------------------------------------------------------------------------
(* Properties of /cart/send-inquiry, checked under RouteSpec                *)

\* a request of /cart/send-inquiry that got past the route's first line
RouteRequest(r) == rq[r].pc \in {"route_call", "done"} /\ rq[r].path = "cart_route"

\* the route is about to call, or has called, the service
HandedOver(r) ==
    /\ rq[r].path = "cart_route"
    /\ rq[r].pc = "route_call" \/ (Done(r) /\ rq[r].status = 500)

\* C25: when the requester is authenticated and the session cart is not
\* empty, the items handed to send_inquiry are the lines of the session
\* cart whatever items the payload carries; otherwise they are the payload's
\* items, and a payload whose items are empty or not a list is rejected
\* with 400, no call of send_email, no connection and the session as it was.
C25_ItemSource ==
    \A r \in Reqs :
        RouteRequest(r) =>
            IF rq[r].authenticated /\ cart # <<>>
            THEN /\ rq[r].fromSession
                 /\ rq[r].items = CartItems(cart)
                 /\ ~(Done(r) /\ rq[r].out.msg.kind \in {"no_products", "list_empty"})
            ELSE /\ ~rq[r].fromSession
                 /\ HandedOver(r) =>
                        /\ IsList(rq[r].payload)
                        /\ rq[r].items = rq[r].payload.v
                        /\ rq[r].items # <<>>
                 /\ (~IsList(rq[r].payload) \/ rq[r].payload.v = <<>>) =>
                        /\ Done(r) /\ rq[r].status = 400
                        /\ ~rq[r].out.ok
                        /\ rq[r].mailCalls = 0 /\ rq[r].conns = 0
                        /\ rq[r].sess = rq[r].sess0 /\ cookie = rq[r].sess0

\* an authenticated request whose payload has no items is served from the
\* session cart
C25_Witness ==
    \E r \in Reqs :
        /\ HandedOver(r) /\ rq[r].authenticated /\ cart # <<>>
        /\ rq[r].payload = JsonList(<<>>)
        /\ rq[r].items = CartItems(cart)

\* a payload whose items are a string is rejected
C25_WitnessNotAList ==
    \E r \in Reqs :
        /\ RouteRequest(r) /\ Done(r) /\ rq[r].status = 400
        /\ rq[r].payload = JsonString(1)

\* the product code an item carries, under the key of the payload or of
\* the cart line
OwnCode(item) ==
    IF "product_code" \in DOMAIN item THEN item.product_code
    ELSE IF "code" \in DOMAIN item THEN item.code
    ELSE "N/A"

\* the quantity an item carries, under the key of the payload or of the
\* cart line
OwnQty(item) ==
    IF "quantity" \in DOMAIN item THEN item.quantity
    ELSE IF "qty" \in DOMAIN item THEN item.qty
    ELSE 1

\* C26: for every item handed to send_inquiry, the row of the product table
\* composed for the e-mail shows the item's own product code and quantity;
\* for a line of the session cart, the code and the quantity add_to_cart
\* stored, not a default.
C26_RowsShowCodeAndQuantity ==
    \A r \in Reqs :
        (rq[r].path = "inquiry" /\ rq[r].assembled) =>
            /\ Len(rq[r].rows) = Len(rq[r].items)
            /\ \A i \in 1..Len(rq[r].items) :
                   /\ rq[r].rows[i].code = OwnCode(rq[r].items[i])
                   /\ rq[r].rows[i].qty = OwnQty(rq[r].items[i])

----------------------------------------------------------------------------
(* Termination of the retry loops, checked under LiveSpec                   *)

\* the request is inside send_email or _send_with_retry
InSendEmail(r) ==
    rq[r].pc \in {"mail_guard", "mail_prepare", "mail_attempt", "mail_sleep",
                  "retry_attempt", "retry_sleep"}

\* send_email or _send_with_retry has returned to its caller
Returned(r) == rq[r].pc \in {"after_send", "done"}

\* the loop is within its attempts and sleeps only between two of them
LoopBounded(r) ==
    /\ rq[r].attempt <= max_retries
    /\ rq[r].conns <= max_retries
    /\ rq[r].sleeps <= max_retries - 1
    /\ rq[r].sleeps <= rq[r].fails
    /\ rq[r].pc \in {"mail_sleep", "retry_sleep"} => rq[r].fails < max_retries
    /\ (Returned(r) /\ rq[r].fails = max_retries) =>
           rq[r].sleeps = max_retries - 1

\* C30: every call of send_email (and of _send_with_retry) returns a
\* result: with each connection attempt ending, the loop makes at most
\* max_retries attempts, does not sleep after the last failed one, and no
\* state is reached from which it retries forever.
C30_SendEmailReturns ==
    /\ [](\A r \in Reqs : LoopBounded(r))
    /\ \A r \in Reqs : InSendEmail(r) ~> Returned(r)

\* send_email returned after max_retries failed attempts and the sleeps
\* between them
C30_Witness ==
    \E r \in Reqs :
        /\ rq[r].pc = "after_send"
        /\ rq[r].fails = max_retries /\ rq[r].conns = max_retries
        /\ rq[r].sleeps = max_retries - 1
        /\ ~rq[r].mailret.ok

----------------------------------------------------------------------------
(* What a recipient decodes from the bytes handed to the SMTP server        *)

B64Val(c) ==
    IF c \in 65..90 THEN c - 65
    ELSE IF c \in 97..122 THEN c - 97 + 26
    ELSE IF c \in 48..57 THEN c - 48 + 52
    ELSE IF c = 43 THEN 62 ELSE 63

B64Alphabet == (65..90) \cup (97..122) \cup (48..57) \cup {43, 47, 61}

\* groups of four base64 characters, '=' padding the last one
RECURSIVE B64Groups(_)
B64Groups(t) ==
    IF Len(t) < 4 THEN <<>>
    ELSE LET a == B64Val(t[1])
             b == B64Val(t[2])
             c == B64Val(t[3])
             d == B64Val(t[4])
         IN  (IF t[3] = 61 THEN << (a * 4) + (b \div 16) >>
              ELSE IF t[4] = 61
                   THEN << (a * 4) + (b \div 16), ((b % 16) * 16) + (c \div 4) >>
              ELSE << (a * 4) + (b \div 16), ((b % 16) * 16) + (c \div 4),
                      ((c % 4) * 64) + d >>)
             \o B64Groups(SubSeq(t, 5, Len(t)))

\* base64 decoding skips what is not of the alphabet (the line feeds)
B64Decode(t) == B64Groups(SelectSeq(t, LAMBDA c : c \in B64Alphabet))

HexVal(c) == IF c \in 48..57 THEN c - 48 ELSE c - 65 + 10

RECURSIVE QDecode(_)
QDecode(t) ==
    IF t = <<>> THEN <<>>
    ELSE IF t[1] = 61 /\ Len(t) >= 3
         THEN << (HexVal(t[2]) * 16) + HexVal(t[3]) >>
              \o QDecode(SubSeq(t, 4, Len(t)))
    ELSE << (IF t[1] = 95 THEN 32 ELSE t[1]) >> \o QDecode(Tail(t))

RECURSIVE Utf8Decode(_)
Utf8Decode(b) ==
    IF b = <<>> THEN <<>>
    ELSE IF b[1] < 128 THEN << b[1] >> \o Utf8Decode(Tail(b))
    ELSE IF b[1] < 224 /\ Len(b) >= 2
         THEN << ((b[1] - 192) * 64) + (b[2] - 128) >>
              \o Utf8Decode(SubSeq(b, 3, Len(b)))
    ELSE IF b[1] < 240 /\ Len(b) >= 3
         THEN << ((b[1] - 224) * 4096) + ((b[2] - 128) * 64) + (b[3] - 128) >>
              \o Utf8Decode(SubSeq(b, 4, Len(b)))
    ELSE IF Len(b) >= 4
         THEN << ((b[1] - 240) * 262144) + ((b[2] - 128) * 4096)
                 + ((b[3] - 128) * 64) + (b[4] - 128) >>
              \o Utf8Decode(SubSeq(b, 5, Len(b)))
    ELSE << 65533 >>

WordBytes(w) ==
    IF w.enc = "b" THEN B64Decode(w.text)
    ELSE IF w.enc = "q" THEN QDecode(w.text)
    ELSE w.text

\* RFC 2047: the white space between two encoded words is not part of the
\* text
RECURSIVE WordsBytes(_)
WordsBytes(ws) ==
    IF ws = <<>> THEN <<>> ELSE WordBytes(Head(ws)) \o WordsBytes(Tail(ws))

DecodeHeader(ws) == Utf8Decode(WordsBytes(ws))

DecodeBody(payload) == Utf8Decode(B64Decode(payload))

HasNonAscii(s) == \E i \in 1..Len(s) : s[i] > 127

\* a call of send_email with a subject, a sender name and a body made of
\* characters, some of them not ASCII
NonAsciiCall(r) ==
    /\ rq[r].pc \notin {"idle", "build"}
    /\ Encodable(rq[r].subject)
    /\ Encodable(rq[r].sender_name)
    /\ Encodable(rq[r].body)
    /\ HasNonAscii(rq[r].subject)
    /\ HasNonAscii(rq[r].sender_name)
    /\ HasNonAscii(rq[r].body)

\* C23: a message built from a subject, a sender name and a body that
\* contain non-ASCII characters raises no encoding error, and decoding the
\* bytes handed to the SMTP server yields the original subject and the
\* original body text.
C23_NonAsciiRoundTrip ==
    \A r \in Reqs :
        NonAsciiCall(r) =>
            /\ rq[r].pc # "raised"
            /\ rq[r].pc = "sent" =>
                   /\ DecodeHeader(rq[r].handed.Subject) = rq[r].subject
                   /\ DecodeBody(rq[r].handed.payload) = rq[r].body

====
